---- MODULE Spec2Model ----
(***************************************************************************)
(* A model of the nnlib neural-network package of MDPmakesNN: layers,      *)
(* forward and backward passes, single-example and batch training, the     *)
(* loss functions, the utility functions and the JSON save/load of a       *)
(* network.                                                                *)
(*                                                                         *)
(* Numbers.  The program computes in float64.  The model computes in exact *)
(* rationals <<n, d>> (d > 0, lowest terms), which is what float64 does    *)
(* whenever every intermediate value is representable (small integers and  *)
(* dyadic fractions).  Two further values exist:                           *)
(*   NaN    == <<0, 0>>  the float64 NaN (0/0);                            *)
(*   Huge   == <<1, 0>>  a value whose numerator or denominator leaves the *)
(*                       range MaxNum the model computes in; an operation  *)
(*                       that produces it is not explored further.         *)
(* math.Exp, math.Tanh and math.Log are library functions with irrational *)
(* values; the model returns a rational within a stated tolerance of them. *)
(***************************************************************************)
EXTENDS Integers, Sequences, FiniteSets, TLC

VARIABLES nn, file, status, call, ret, nops, mdp

vars == <<nn, file, status, call, ret, nops, mdp>>

(***************************************************************************)
(* Bounds of the model.                                                    *)
(***************************************************************************)
\* largest numerator / denominator a model number may have
MaxNum == 1000000000
\* number of calls of Forward, Predict, Train and TrainBatch in one run
MaxOps == 1

(***************************************************************************)
(* Rational arithmetic standing for float64 arithmetic.                    *)
(***************************************************************************)
NaN == <<0, 0>>
Huge == <<1, 0>>

\* the infinities of float64: math.Inf(-1) and math.Inf(1)
NegInf == <<-1, 0>>
PosInf == <<2, 0>>

IsInf(x) == x = NegInf \/ x = PosInf

Abs(n) == IF n < 0 THEN -n ELSE n

\* at most steps steps of Euclid's algorithm on <<a, b>>
RECURSIVE Euclid(_, _)
Euclid(st, steps) ==
  IF st[2] = 0 \/ steps = 0 THEN st
  ELSE IF steps = 1 THEN <<st[2], st[1] % st[2]>>
  ELSE Euclid(Euclid(st, steps \div 2), steps - steps \div 2)

\* the greatest common divisor (Euclid's algorithm ends within 64 steps on
\* 31-bit numbers)
GCD(a, b) == Euclid(<<a, b>>, 64)[1]

IsRat(x) == x[2] > 0

\* |a * b| stays within the model's range
MulFits(a, b) == a = 0 \/ b = 0 \/ Abs(a) <= MaxNum \div Abs(b)

\* the exact quotient n / g for a divisor g of n (n of either sign)
Quot(n, g) == IF n < 0 THEN -((-n) \div g) ELSE n \div g

\* n/d in lowest terms (d > 0), or Huge when it leaves the model's range
Mk(n, d) ==
  LET g == GCD(Abs(n), d)
      n2 == Quot(n, g)
      d2 == d \div g
  IN IF Abs(n2) > MaxNum \/ d2 > MaxNum THEN Huge ELSE <<n2, d2>>

R(n) == <<n, 1>>
Zero == <<0, 1>>
One == <<1, 1>>

(***************************************************************************)
(* Four float64 values that lie between the rationals of the model, all    *)
(* products of the constant epsilon = 1e-15 of CrossEntropyLoss.  They are *)
(* kept as symbols <<s, -j>> with s the sign:                              *)
(*   j = 1   1e-15                          (epsilon)                      *)
(*   j = 2   1 - 1e-15                      (the float64 below 1 it gives) *)
(*   j = 3   1 - (1 - 1e-15)                (about 9.992e-16)              *)
(*   j = 4   -math.Log(1 - 1e-15)           (a few ulps above j = 3)       *)
(* The model computes with them where float64 is exact (x + 0, x * 1,      *)
(* x * 0, -x, epsilon - 1, (1 - epsilon) - 1); every other operation on    *)
(* them leaves the range of the model (Huge).                              *)
(***************************************************************************)
IsSym(x) == x[2] < 0
IsNum(x) == x[2] # 0

Epsilon == <<1, -1>>
OneMinusEpsilon == <<1, -2>>
EpsilonGap == <<1, -3>>
EpsilonLog == <<1, -4>>

\* the result of an operation the model does not compute: NaN as soon as an
\* operand is NaN and none is out of range, else out of range
Bad(x, y) ==
  IF x = Huge \/ y = Huge THEN Huge
  ELSE IF x = NaN \/ y = NaN THEN NaN
  ELSE Huge

Neg(x) == IF IsNum(x) THEN <<-x[1], x[2]>> ELSE x

\* x + y with x one of the four symbols or its negative
SymAdd(x, y) ==
  IF y = Zero THEN x
  ELSE IF x = Epsilon /\ y = R(-1) THEN Neg(OneMinusEpsilon)
  ELSE IF x = Neg(Epsilon) /\ y = One THEN OneMinusEpsilon
  ELSE IF x = OneMinusEpsilon /\ y = R(-1) THEN Neg(EpsilonGap)
  ELSE IF x = Neg(OneMinusEpsilon) /\ y = One THEN EpsilonGap
  ELSE Bad(x, y)

\* x * y with x one of the four symbols or its negative
SymMul(x, y) ==
  IF y = Zero THEN Zero
  ELSE IF y = One THEN x
  ELSE IF y = R(-1) THEN Neg(x)
  ELSE Bad(x, y)

\* x + y over the least common denominator
Add(x, y) ==
  IF IsRat(x) /\ IsRat(y)
  THEN LET g == GCD(x[2], y[2])
           a == y[2] \div g
           b == x[2] \div g
       IN IF MulFits(x[1], a) /\ MulFits(y[1], b) /\ MulFits(x[2], a)
          THEN Mk(x[1] * a + y[1] * b, x[2] * a)
          ELSE Huge
  ELSE IF IsSym(x) THEN SymAdd(x, y)
  ELSE IF IsSym(y) THEN SymAdd(y, x)
  ELSE Bad(x, y)

Sub(x, y) == Add(x, Neg(y))

\* x * y, the common factors cancelled before multiplying
Mul(x, y) ==
  IF IsRat(x) /\ IsRat(y)
  THEN LET g1 == GCD(Abs(x[1]), y[2])
           g2 == GCD(Abs(y[1]), x[2])
           n1 == Quot(x[1], g1)
           n2 == Quot(y[1], g2)
           d1 == x[2] \div g2
           d2 == y[2] \div g1
       IN IF MulFits(n1, n2) /\ MulFits(d1, d2)
          THEN <<n1 * n2, d1 * d2>>
          ELSE Huge
  ELSE IF IsSym(x) THEN SymMul(x, y)
  ELSE IF IsSym(y) THEN SymMul(y, x)
  ELSE Bad(x, y)

\* float64 division: 0/0 is NaN; a non-zero value over 0 is infinite (Huge)
Div(x, y) ==
  IF IsRat(x) /\ IsRat(y)
  THEN IF y[1] = 0 THEN (IF x[1] = 0 THEN NaN ELSE Huge)
       ELSE IF y[1] > 0 THEN Mul(x, <<y[2], y[1]>>)
       ELSE Mul(x, <<-y[2], -y[1]>>)
  ELSE IF IsSym(x) /\ y = One THEN x
  ELSE IF IsSym(x) /\ y = R(-1) THEN Neg(x)
  ELSE Bad(x, y)

\* the comparison of a/b with c/d by continued fractions: st is
\* <<a, b, c, d, sign>>, sign 2 while the expansions agree
CmpDecided(sign) == <<0, 1, 0, 1, sign>>

\* the next terms qa, qc of the expansions and the remainders ra, rc
CmpTerm(st, qa, qc, ra, rc) ==
  IF qa # qc THEN CmpDecided(IF qa < qc THEN -1 ELSE 1)
  ELSE IF ra = 0 /\ rc = 0 THEN CmpDecided(0)
  ELSE IF ra = 0 THEN CmpDecided(-1)
  ELSE IF rc = 0 THEN CmpDecided(1)
  ELSE <<st[4], rc, st[2], ra, 2>>

CmpStep(st) ==
  CmpTerm(st, st[1] \div st[2], st[3] \div st[4], st[1] % st[2], st[3] % st[4])

RECURSIVE CmpLoop(_, _)
CmpLoop(st, steps) ==
  IF st[5] # 2 \/ steps = 0 THEN st
  ELSE IF steps = 1 THEN CmpStep(st)
  ELSE CmpLoop(CmpLoop(st, steps \div 2), steps - steps \div 2)

\* the sign of a/b - c/d for a, c >= 0 and b, d > 0
CmpPos(a, b, c, d) == CmpLoop(<<a, b, c, d, 2>>, 64)[5]

\* the sign of x - y for rationals x, y
Cmp(x, y) ==
  IF x[1] < 0 /\ y[1] >= 0 THEN -1
  ELSE IF x[1] >= 0 /\ y[1] < 0 THEN 1
  ELSE IF x[1] >= 0 THEN CmpPos(x[1], x[2], y[1], y[2])
  ELSE CmpPos(-y[1], y[2], -x[1], x[2])

\* the rational a number of the model lies next to, and the side it lies on:
\* 1 - 1e-15 just below 1, the three others just above 0 in the order
\* j = 3 < j = 4 < j = 1
Near(x) ==
  IF IsRat(x) THEN x
  ELSE IF x[2] = -2 THEN R(x[1])
  ELSE Zero

Side(x) ==
  IF IsRat(x) THEN 0
  ELSE IF x[2] = -2 THEN -x[1]
  ELSE IF x[2] = -1 THEN 3 * x[1]
  ELSE IF x[2] = -4 THEN 2 * x[1]
  ELSE x[1]

\* the sign of x - y for numbers of the model
CmpNear(x, y, c) ==
  IF c # 0 THEN c
  ELSE IF Side(x) < Side(y) THEN -1
  ELSE IF Side(x) > Side(y) THEN 1
  ELSE 0

CmpNum(x, y) == CmpNear(x, y, Cmp(Near(x), Near(y)))

\* float64 comparison: false as soon as an operand is NaN
Lt(x, y) == IsNum(x) /\ IsNum(y) /\ CmpNum(x, y) < 0
Gt(x, y) == Lt(y, x)
Ge(x, y) == IsNum(x) /\ IsNum(y) /\ CmpNum(x, y) >= 0

\* math.Max, math.Min: NaN if an operand is NaN
FMax(x, y) == IF IsNum(x) /\ IsNum(y) THEN (IF Lt(x, y) THEN y ELSE x) ELSE Bad(x, y)
FMin(x, y) == IF IsNum(x) /\ IsNum(y) THEN (IF Lt(y, x) THEN y ELSE x) ELSE Bad(x, y)

(***************************************************************************)
(* math.Exp, math.Tanh and math.Log.  Their values are irrational, and the *)
(* float64 the library returns is the nearest one.  The model computes the *)
(* value in binary fixed point with 2 * HalfBits fractional bits (a power  *)
(* series after a range reduction) and returns the simplest rational       *)
(* within 1/TolDen of it: the first convergent h/k of the continued        *)
(* fraction whose error bound 1/(k * k') is small enough.  The tolerance   *)
(* is relative for Exp and absolute for Tanh and Log.  The results are     *)
(* exact where the library's are (Exp(0) = 1, Tanh(0) = 0, Log(1) = 0) and *)
(* differ from the library's by a few parts in TolDen elsewhere.  An       *)
(* argument for which the fixed-point value would leave 30 bits leaves the *)
(* range of the model (Huge).                                              *)
(***************************************************************************)
\* half the number of fractional bits of the fixed-point values
HalfBits == 13
\* the reciprocal of the relative tolerance of the rational returned
TolDen == 1000000

Limb == 2 ^ HalfBits
Scale == Limb * Limb
\* the fixed-point values stay below FixLimit
FixLimit == 2 ^ 30

\* one step of the binary long division of r by d: st is <<quotient, r>>
DivBit(st, d) ==
  IF 2 * st[2] >= d THEN <<2 * st[1] + 1, 2 * st[2] - d>> ELSE <<2 * st[1], 2 * st[2]>>

\* bits steps of the long division; once the remainder is 0 the bits left are 0
RECURSIVE DivBits(_, _, _)
DivBits(st, d, bits) ==
  IF bits = 0 THEN st
  ELSE IF st[2] = 0 THEN <<st[1] * 2 ^ bits, 0>>
  ELSE IF bits = 1 THEN DivBit(st, d)
  ELSE DivBits(DivBits(st, d, bits \div 2), d, bits - bits \div 2)

\* floor(r * 2^bits / d) for 0 <= r < d
FracBits(r, d, bits) == DivBits(<<0, r>>, d, bits)[1]

\* n/d in fixed point, for n >= 0 and d > 0
ToFix(n, d) == (n \div d) * Scale + FracBits(n % d, d, 2 * HalfBits)

\* the product of two fixed-point values from their limbs
MulLimbs(v1, v0, w1, w0) ==
  v1 * w1 + (v1 * w0) \div Limb + (v0 * w1) \div Limb + (v0 * w0) \div Scale

MulFix(v, w) == MulLimbs(v \div Limb, v % Limb, w \div Limb, w % Limb)

\* the continued fraction of n/d: st is <<n, d, h1, k1, h0, k0>> with h1/k1
\* the last convergent, h0/k0 the one before, and n/d what is left to
\* expand; d = 0 once h1/k1 is the result
\* h/k is the next convergent: h1/k1 errs by less than 1/(k1 * k)
ConvergentNext(st, h, k) ==
  IF st[4] > 0 /\ k >= (TolDen + st[4] - 1) \div st[4]
  THEN <<0, 0, st[3], st[4], 0, 0>>
  ELSE <<st[2], st[1] % st[2], h, k, st[3], st[4]>>

ConvergentTerm(st, a) == ConvergentNext(st, a * st[3] + st[5], a * st[4] + st[6])

ConvergentStep(st) == IF st[2] = 0 THEN st ELSE ConvergentTerm(st, st[1] \div st[2])

\* at most steps terms of the expansion
RECURSIVE Convergent(_, _)
Convergent(st, steps) ==
  IF st[2] = 0 \/ steps = 0 THEN st
  ELSE IF steps = 1 THEN ConvergentStep(st)
  ELSE Convergent(Convergent(st, steps \div 2), steps - steps \div 2)

\* the convergent an expansion ended on
Converged(st) == <<st[3], st[4]>>

\* the simplest rational within 1/TolDen of n/d, for n >= 0 and d > 0 (the
\* expansion of a 31-bit fraction has fewer than 64 terms)
Simplest(n, d) == Converged(Convergent(<<n, d, 1, 0, 0, 1>>, 64))

\* the reciprocal of h/k
Recip(c) == <<c[2], c[1]>>

\* the simplest rational within a relative 1/TolDen of n/d, for n, d > 0
Nearest(n, d) == IF n >= d THEN Simplest(n, d) ELSE Recip(Simplest(d, n))

\* the power series of e^y by Horner's rule: the steps t -> 1 + (y/i) t for
\* i = hi down to lo, as long as t stays in range
RECURSIVE ExpSeries(_, _, _, _)
ExpSeries(y, t, hi, lo) ==
  IF hi < lo \/ t >= FixLimit THEN t
  ELSE IF hi = lo THEN Scale + MulFix(y, t) \div hi
  ELSE ExpSeries(y, ExpSeries(y, t, hi, (hi + lo) \div 2 + 1), (hi + lo) \div 2, lo)

\* the fourth power
Square2(t) == MulFix(MulFix(t, t), MulFix(t, t))

\* the largest |x| for which e^|x| stays below FixLimit / Scale
ExpRange == <<2 * (30 - 2 * HalfBits), 3>>

\* the result from e = e^|x| in fixed point: e, 1/e for a negative x, or the
\* tanh (e - 1)/(e + 1) of |x|/2 and its negative
FromExp(e, as) ==
  IF e >= FixLimit THEN Huge
  ELSE IF as = "exp" THEN Nearest(e, Scale)
  ELSE IF as = "1/exp" THEN Nearest(Scale, e)
  ELSE IF as = "tanh" THEN Simplest(e - Scale, e + Scale)
  ELSE Neg(Simplest(e - Scale, e + Scale))

\* the result from t = e^(|x|/4)
FromRoot(t, as) == IF t >= FixLimit THEN Huge ELSE FromExp(Square2(t), as)

\* the result from |x| in fixed point: e^|x| = (e^(|x|/4))^4, a series of 14 terms
FromFix(x, as) ==
  IF x >= FixLimit THEN Huge ELSE FromRoot(ExpSeries(x \div 4, Scale, 14, 1), as)

Exp(x) ==
  IF ~IsRat(x) THEN Bad(x, x)
  ELSE IF x[1] = 0 THEN One
  ELSE IF Cmp(<<Abs(x[1]), x[2]>>, ExpRange) > 0 THEN Huge
  ELSE IF x[1] > 0 THEN FromFix(ToFix(x[1], x[2]), "exp")
  ELSE FromFix(ToFix(-x[1], x[2]), "1/exp")

\* math.Tanh: odd, through e^(2|x|)
TanhF(x) ==
  IF ~IsRat(x) THEN Bad(x, x)
  ELSE IF x[1] = 0 THEN Zero
  ELSE IF ~MulFits(2, x[1]) \/ Cmp(<<2 * Abs(x[1]), x[2]>>, ExpRange) > 0 THEN Huge
  ELSE IF x[1] > 0 THEN FromFix(ToFix(2 * x[1], x[2]), "tanh")
  ELSE FromFix(ToFix(-2 * x[1], x[2]), "-tanh")

\* k + s if 2^(k+s) <= n/d, else k
Log2Step(n, d, k, s) == IF k + s <= 30 /\ d <= n \div 2 ^ (k + s) THEN k + s ELSE k

\* the k with 2^k <= n/d < 2^(k+1), for n >= d, bit by bit
Log2Floor(n, d) ==
  Log2Step(n, d, Log2Step(n, d, Log2Step(n, d, Log2Step(n, d,
           Log2Step(n, d, 0, 16), 8), 4), 2), 1)

\* the series of atanh(u)/u in w = u^2, 1 + w/3 + w^2/5 + ..., by Horner's
\* rule: the steps t -> 1/(2i + 1) + w t for i = hi down to lo, as long as t
\* stays in range
RECURSIVE AtanhSeries(_, _, _, _)
AtanhSeries(w, t, hi, lo) ==
  IF hi < lo \/ t >= FixLimit THEN t
  ELSE IF hi = lo THEN Scale \div (2 * hi + 1) + MulFix(w, t)
  ELSE AtanhSeries(w, AtanhSeries(w, t, hi, (hi + lo) \div 2 + 1), (hi + lo) \div 2, lo)

\* 2 * atanh(u) in fixed point, a series of 10 terms
Atanh2(u) == 2 * MulFix(u, AtanhSeries(MulFix(u, u), 0, 9, 0))

\* ln(2) = 2 * atanh(1/3) in fixed point
Ln2 == Atanh2(FracBits(Scale, 3 * Scale, 2 * HalfBits))

\* a fixed-point value v >= 0 as a rational
LnOf(v) == Simplest(v, Scale)

\* k ln(2) + ln(m) from u = (m - 1)/(m + 1): ln(m) = 2 * atanh(u)
LnOfRatio(u, k) == IF u > Scale THEN Huge ELSE LnOf(k * Ln2 + Atanh2(u))

\* k ln(2) + ln(m) for 1 <= m < 2 in fixed point
LnOfMantissa(m, k) ==
  IF m >= FixLimit THEN Huge
  ELSE LnOfRatio(FracBits(m - Scale, m + Scale, 2 * HalfBits), k)

\* ln(n/d) for n >= d > 0 from k with n/d = 2^k * m
LnReduced(n, d, k) ==
  IF k > 2 * (FixLimit \div Ln2) - 2 THEN Huge
  ELSE LnOfMantissa(ToFix(n, d * 2 ^ k), k)

\* ln(n/d) for n >= d > 0
LnPos(n, d) == LnReduced(n, d, Log2Floor(n, d))

\* math.Log: NaN below 0, -Inf at 0; ln(1e-15) = -15 ln(10)
Log(x) ==
  IF x = Epsilon THEN Mul(R(-15), LnPos(10, 1))
  ELSE IF x = OneMinusEpsilon THEN Neg(EpsilonLog)
  ELSE IF IsNum(x) /\ x[1] < 0 THEN NaN
  ELSE IF ~IsRat(x) THEN Bad(x, x)
  ELSE IF x[1] = 0 THEN Huge
  ELSE IF x[1] >= x[2] THEN LnPos(x[1], x[2])
  ELSE Neg(LnPos(x[2], x[1]))

\* every entry of a vector, a matrix
VecOK(v) == \A i \in DOMAIN v : v[i] # Huge
MatOK(m) == \A i \in DOMAIN m : VecOK(m[i])

\* diff * diff
Square(x) == Mul(x, x)

(***************************************************************************)
(* Sequence helpers.                                                       *)
(***************************************************************************)
\* make([]float64, n): n zeros
Zeros(n) == [i \in 1..n |-> Zero]

\* the sum a Go loop accumulates left to right, starting from init
RECURSIVE SumFrom(_, _, _)
SumFrom(init, f, n) ==
  IF n = 0 THEN init ELSE Add(SumFrom(init, f, n - 1), f[n])

(***************************************************************************)
(* activations.go: the activation functions.  An activation is a record    *)
(* [kind, Alpha, lastOutput]: kind is the dynamic type, Alpha the public   *)
(* field of LeakyReLU and of ELU, which the caller sets in the struct      *)
(* literal (the zero value LeakyReLU{} has Alpha 0), lastOutput the vector *)
(* a Softmax caches.  The types without the field carry Alpha 0.           *)
(***************************************************************************)
Kinds == {"Sigmoid", "ReLU", "LeakyReLU", "Tanh", "Linear", "ELU", "Swish", "Softmax"}

\* the struct literals Sigmoid{}, ReLU{}, Tanh{}, Linear{}, Swish{}, &Softmax{}
Plain(kind) == [kind |-> kind, Alpha |-> Zero, lastOutput |-> <<>>]

\* the struct literals LeakyReLU{Alpha: alpha} and ELU{Alpha: alpha}
WithAlpha(kind, alpha) == [kind |-> kind, Alpha |-> alpha, lastOutput |-> <<>>]

SigmoidActivate(x) == Div(One, Add(One, Exp(Neg(x))))

\* sig * (1 - sig)
SigmoidSlope(sig) == Mul(sig, Sub(One, sig))

\* sig := s.Activate(x); return sig * (1 - sig)
SigmoidDerivative(x) == SigmoidSlope(SigmoidActivate(x))

ReLUActivate(x) == IF x = Huge THEN Huge ELSE IF Gt(x, Zero) THEN x ELSE Zero

ReLUDerivative(x) == IF x = Huge THEN Huge ELSE IF Gt(x, Zero) THEN One ELSE Zero

LeakyReLUActivate(alpha, x) ==
  IF x = Huge THEN Huge ELSE IF Gt(x, Zero) THEN x ELSE Mul(alpha, x)

LeakyReLUDerivative(alpha, x) ==
  IF x = Huge THEN Huge ELSE IF Gt(x, Zero) THEN One ELSE alpha

TanhActivate(x) == TanhF(x)

\* 1 - val*val
TanhSlope(val) == Sub(One, Mul(val, val))

\* val := math.Tanh(x); return 1 - val*val
TanhDerivative(x) == TanhSlope(TanhF(x))

LinearActivate(x) == x

LinearDerivative(x) == IF x = Huge THEN Huge ELSE One

ELUActivate(alpha, x) ==
  IF x = Huge THEN Huge
  ELSE IF Ge(x, Zero) THEN x ELSE Mul(alpha, Sub(Exp(x), One))

ELUDerivative(alpha, x) ==
  IF x = Huge THEN Huge
  ELSE IF Ge(x, Zero) THEN One ELSE Mul(alpha, Exp(x))

SwishActivate(x) == Div(x, Add(One, Exp(Neg(x))))

\* sig + x*sig*(1-sig)
SwishSlope(x, sig) == Add(sig, Mul(Mul(x, sig), Sub(One, sig)))

\* sig := 1 / (1 + math.Exp(-x)); return sig + x*sig*(1-sig)
SwishDerivative(x) == SwishSlope(x, Div(One, Add(One, Exp(Neg(x)))))

\* Softmax's scalar Activate is a no-op
SoftmaxActivate(x) == x

\* Softmax's Derivative is the placeholder 1
SoftmaxDerivative(x) == One

\* act.Activate(x), dispatched on the dynamic type
Activate(act, x) ==
  CASE act.kind = "Sigmoid" -> SigmoidActivate(x)
    [] act.kind = "ReLU" -> ReLUActivate(x)
    [] act.kind = "LeakyReLU" -> LeakyReLUActivate(act.Alpha, x)
    [] act.kind = "Tanh" -> TanhActivate(x)
    [] act.kind = "Linear" -> LinearActivate(x)
    [] act.kind = "ELU" -> ELUActivate(act.Alpha, x)
    [] act.kind = "Swish" -> SwishActivate(x)
    [] OTHER -> SoftmaxActivate(x)

\* act.Derivative(x), dispatched on the dynamic type
Derivative(act, x) ==
  CASE act.kind = "Sigmoid" -> SigmoidDerivative(x)
    [] act.kind = "ReLU" -> ReLUDerivative(x)
    [] act.kind = "LeakyReLU" -> LeakyReLUDerivative(act.Alpha, x)
    [] act.kind = "Tanh" -> TanhDerivative(x)
    [] act.kind = "Linear" -> LinearDerivative(x)
    [] act.kind = "ELU" -> ELUDerivative(act.Alpha, x)
    [] act.kind = "Swish" -> SwishDerivative(x)
    [] OTHER -> SoftmaxDerivative(x)

\* the running maximum of Softmax.ActivateVector's first loop
RECURSIVE MaxVal(_, _)
MaxVal(input, n) ==
  IF n = 0 THEN input[1]
  ELSE LET m == MaxVal(input, n - 1)
       IN IF Gt(input[n], m) THEN input[n] ELSE m

\* a third loop that divides by the first exponential instead of the sum
NormalizedByFirst(exps, expSum) == [i \in DOMAIN exps |-> Div(exps[i], exps[1])]

\* Softmax.ActivateVector on a non-empty vector (input[0] panics on an empty one)
\* the third loop: output[i] /= expSum
Normalized(exps, expSum) == [i \in DOMAIN exps |-> Div(exps[i], expSum)]

\* the second loop: output[i] = math.Exp(v - maxVal), expSum += output[i]
ExpsOf(input, maxVal) == [i \in DOMAIN input |-> Exp(Sub(input[i], maxVal))]

SumOf(v) == SumFrom(Zero, v, Len(v))

NormalizedExps(exps) == Normalized(exps, SumOf(exps))

ActivateVector(input) ==
  IF ~VecOK(input) THEN [i \in DOMAIN input |-> Huge]
  ELSE NormalizedExps(ExpsOf(input, MaxVal(input, Len(input))))

(***************************************************************************)
(* loss.go: the loss functions.  Each returns [panic, loss, grad]; panic   *)
(* is the index-out-of-range run-time panic of target[i].                  *)
(***************************************************************************)
\* p := math.Min(math.Max(predicted[i], epsilon), 1-epsilon)
Clamp(x) == FMin(FMax(x, Epsilon), Sub(One, Epsilon))

\* grad[i] = p - t
CEGrad(p, t) == Sub(p, t)

CrossEntropyLoss(predicted, target) ==
  IF Len(target) < Len(predicted)
  THEN [panic |-> TRUE, loss |-> Zero, grad |-> <<>>]
  ELSE [panic |-> FALSE,
        loss |-> SumOf([i \in DOMAIN predicted |->
                          Neg(Mul(target[i], Log(Clamp(predicted[i]))))]),
        grad |-> [i \in DOMAIN predicted |-> CEGrad(Clamp(predicted[i]), target[i])]]

MSELoss(predicted, target) ==
  IF Len(target) < Len(predicted)
  THEN [panic |-> TRUE, loss |-> Zero, grad |-> <<>>]
  ELSE [panic |-> FALSE,
        loss |-> Div(SumOf([i \in DOMAIN predicted |->
                              Square(Sub(predicted[i], target[i]))]),
                     R(Len(predicted))),
        grad |-> [i \in DOMAIN predicted |->
                    Mul(R(2), Sub(predicted[i], target[i]))]]

(***************************************************************************)
(* utils.go: ArgMax and Accuracy.  Go indices are 0-based: ArgMax returns  *)
(* the 0-based index, -1 for an empty vector.                              *)
(***************************************************************************)
\* a comparison that also moves the running maximum on a tie
ArgMaxBetterOrEqual(v, maxVal) == Ge(v, maxVal)

\* the strict comparison that moves the running maximum
ArgMaxBetter(v, maxVal) == Gt(v, maxVal)

\* <<maxIdx, maxVal>> after the first n elements (maxIdx 0-based)
RECURSIVE ArgMaxLoop(_, _)
ArgMaxLoop(vec, n) ==
  IF n = 0 THEN <<0, vec[1]>>
  ELSE LET m == ArgMaxLoop(vec, n - 1)
       IN IF ArgMaxBetter(vec[n], m[2]) THEN <<n - 1, vec[n]>> ELSE m

ArgMax(vec) == IF Len(vec) = 0 THEN -1 ELSE ArgMaxLoop(vec, Len(vec))[1]

\* the number of rows among the first n whose ArgMax agree
RECURSIVE CorrectCount(_, _, _)

\* a count that takes every row for correct
CorrectCountEveryRow(predictions, targets, n) == n

CorrectCount(predictions, targets, n) ==
  IF n = 0 THEN 0
  ELSE CorrectCount(predictions, targets, n - 1)
       + (IF ArgMax(predictions[n]) = ArgMax(targets[n]) THEN 1 ELSE 0)

Accuracy(predictions, targets) ==
  IF Len(predictions) = 0 \/ Len(targets) = 0 \/ Len(predictions) # Len(targets)
  THEN Zero
  ELSE Div(R(CorrectCount(predictions, targets, Len(predictions))),
           R(Len(predictions)))

(***************************************************************************)
(* The Layer: a record [Weights, Biases, Activation, inputs, outputs,      *)
(* deltas].  A nil slice is the empty sequence.  Every operation returns   *)
(* a record with a panic flag (a Go run-time panic: index out of range)    *)
(* and the layer as the call left it, also when it panicked half way.      *)
(***************************************************************************)
\* NewLayer seeds math/rand from the clock and draws one weight after the
\* other, row by row: draws is the sequence of the inputSize * outputSize
\* values rand.Float64()*0.2 - 0.1 of the call, each any value of [-0.1, 0.1)
\* whatever the others are
\* make panics on a negative length (makeslice: len out of range): the rows
\* when outputSize < 0, the first row's weights when there is a row and
\* inputSize < 0
NewLayerPanics(inputSize, outputSize) ==
  outputSize < 0 \/ (outputSize > 0 /\ inputSize < 0)

\* NewLayer: [panic, layer]; a panic returns no layer
NewLayer(inputSize, outputSize, activation, draws) ==
  IF NewLayerPanics(inputSize, outputSize)
  THEN [panic |-> TRUE, layer |-> <<>>]
  ELSE [panic |-> FALSE,
        layer |-> [Weights |-> [i \in 1..outputSize |->
                                  [j \in 1..inputSize |-> draws[(i - 1) * inputSize + j]]],
                   Biases |-> Zeros(outputSize),
                   Activation |-> activation,
                   inputs |-> <<>>, outputs |-> <<>>, deltas |-> <<>>]]

IsSoftmax(l) == l.Activation.kind = "Softmax"

\* sum := l.Biases[i]; for j := range input { sum += l.Weights[i][j] * input[j] }
WeightedSum(l, input, i) ==
  SumFrom(l.Biases[i], [j \in DOMAIN input |-> Mul(l.Weights[i][j], input[j])],
          Len(input))

\* the index-out-of-range conditions of Forward's loops
ForwardIndexPanic(l, input) ==
  \E i \in DOMAIN l.Weights : i > Len(l.Biases) \/ Len(input) > Len(l.Weights[i])

\* the first loop: output[i] = l.Activation.Activate(sum)
LayerOutput(l, input) ==
  [i \in DOMAIN l.Weights |-> Activate(l.Activation, WeightedSum(l, input, i))]

\* a layer that stored its inputs and panicked
ForwardPanicked(l, input) ==
  [panic |-> TRUE, layer |-> [l EXCEPT !.inputs = input], out |-> <<>>]

\* a Forward that leaves in place what an earlier Forward cached
ForwardStoredOnce(l, input, output) ==
  [panic |-> FALSE,
   layer |-> IF l.outputs = <<>> THEN [l EXCEPT !.inputs = input, !.outputs = output]
             ELSE l,
   out |-> output]

\* l.outputs = output; return output
ForwardStored(l, input, output) ==
  [panic |-> FALSE, layer |-> [l EXCEPT !.inputs = input, !.outputs = output],
   out |-> output]

\* the Softmax branch: output = sm.ActivateVector(output), which caches it
ForwardSoftmax(l, input, sm) ==
  [panic |-> FALSE,
   layer |-> [l EXCEPT !.inputs = input, !.outputs = sm, !.Activation.lastOutput = sm],
   out |-> sm]

\* a Forward that never routes the output through ActivateVector
ForwardFinishElementwise(l, input, output) == ForwardStored(l, input, output)

\* the rest of Forward once the first loop produced output
ForwardFinish(l, input, output) ==
  IF IsSoftmax(l)
  THEN IF Len(output) = 0 THEN ForwardPanicked(l, input)
       ELSE ForwardSoftmax(l, input, ActivateVector(output))
  ELSE ForwardStored(l, input, output)

LayerForward(l, input) ==
  IF ForwardIndexPanic(l, input) THEN ForwardPanicked(l, input)
  ELSE ForwardFinish(l, input, LayerOutput(l, input))

\* l.deltas[i] for the rows the delta loop reaches before errorGrad runs out
DeltaOf(l, errorGrad, i) ==
  IF i > Len(errorGrad) THEN Zero
  ELSE IF IsSoftmax(l) THEN errorGrad[i]
  ELSE Mul(errorGrad[i], Derivative(l.Activation, l.outputs[i]))

\* prevError[j] = sum over i of deltas[i] * Weights[i][j]
PrevError(l, deltas) ==
  [j \in DOMAIN l.inputs |->
     SumFrom(Zero, [i \in DOMAIN deltas |-> Mul(deltas[i], l.Weights[i][j])],
             Len(deltas))]

\* the index-out-of-range conditions of the prevError loops
PrevIndexPanic(l, deltas) ==
  \E j \in DOMAIN l.inputs : \E i \in DOMAIN deltas :
     i > Len(l.Weights) \/ j > Len(l.Weights[i])

\* the first row at which the update loop panics, Len(Weights)+1 if none does
FirstBadRow(l, deltas) ==
  LET bad == {i \in DOMAIN l.Weights :
                 i > Len(deltas) \/ Len(l.Weights[i]) > Len(l.inputs)
                 \/ i > Len(l.Biases)}
  IN IF bad = {} THEN Len(l.Weights) + 1
     ELSE CHOOSE i \in bad : \A k \in bad : i <= k

\* a guard that lets every rate through
ShouldUpdateAlways(learningRate) == learningRate = learningRate

\* the guard of the parameter update
ShouldUpdate(learningRate) == Gt(learningRate, Zero)

\* l.Weights[i][j] -= learningRate * l.deltas[i] * l.inputs[j]
UpdatedWeight(w, learningRate, delta, input) ==
  Sub(w, Mul(Mul(learningRate, delta), input))

\* l.Biases[i] -= learningRate * l.deltas[i]
UpdatedBias(b, learningRate, delta) == Sub(b, Mul(learningRate, delta))

\* the update loop, run up to the row at which it panics
UpdateParams(l, deltas, learningRate) ==
  LET fb == FirstBadRow(l, deltas)
  IN [l EXCEPT
        !.Weights = [i \in DOMAIN l.Weights |-> [j \in DOMAIN l.Weights[i] |->
            IF i < fb \/ (i = fb /\ i <= Len(deltas) /\ j <= Len(l.inputs))
            THEN UpdatedWeight(l.Weights[i][j], learningRate, deltas[i], l.inputs[j])
            ELSE l.Weights[i][j]]],
        !.Biases = [i \in DOMAIN l.Biases |->
            IF i < fb /\ i <= Len(l.Weights)
            THEN UpdatedBias(l.Biases[i], learningRate, deltas[i])
            ELSE l.Biases[i]]]

\* the first loop: l.deltas = make(...); l.deltas[i] = ...
LayerDeltas(l, errorGrad) == [i \in DOMAIN l.outputs |-> DeltaOf(l, errorGrad, i)]

\* the update loop and the return: a loop that panics at a row leaves the
\* parameters updated up to there and the call returns nothing, `return
\* prevError` is not reached
BackwardUpdated(l, deltas, learningRate, prevError) ==
  IF FirstBadRow(l, deltas) <= Len(l.Weights)
  THEN [panic |-> TRUE,
        layer |-> UpdateParams([l EXCEPT !.deltas = deltas], deltas, learningRate),
        prevError |-> <<>>]
  ELSE [panic |-> FALSE,
        layer |-> UpdateParams([l EXCEPT !.deltas = deltas], deltas, learningRate),
        prevError |-> prevError]

\* a Backward that updates the weights before it computes prevError
BackwardFinishUpdateFirst(l, deltas, errorGrad, learningRate) ==
  IF Len(errorGrad) < Len(l.outputs) \/ PrevIndexPanic(l, deltas)
  THEN [panic |-> TRUE, layer |-> [l EXCEPT !.deltas = deltas], prevError |-> <<>>]
  ELSE IF ShouldUpdate(learningRate)
  THEN BackwardUpdated(l, deltas, learningRate,
                       PrevError(UpdateParams(l, deltas, learningRate), deltas))
  ELSE [panic |-> FALSE, layer |-> [l EXCEPT !.deltas = deltas],
        prevError |-> PrevError(l, deltas)]

\* the rest of Backward once the deltas are computed
BackwardFinish(l, deltas, errorGrad, learningRate) ==
  IF Len(errorGrad) < Len(l.outputs) \/ PrevIndexPanic(l, deltas)
  THEN [panic |-> TRUE, layer |-> [l EXCEPT !.deltas = deltas], prevError |-> <<>>]
  ELSE IF ShouldUpdate(learningRate)
  THEN BackwardUpdated(l, deltas, learningRate, PrevError(l, deltas))
  ELSE [panic |-> FALSE, layer |-> [l EXCEPT !.deltas = deltas],
        prevError |-> PrevError(l, deltas)]

LayerBackward(l, errorGrad, learningRate) ==
  BackwardFinish(l, LayerDeltas(l, errorGrad), errorGrad, learningRate)

(***************************************************************************)
(* The NeuralNetwork: the sequence of its Layers.                          *)
(***************************************************************************)
\* the guard of NewNeuralNetwork's panic
ConstructPanics(sizes, activations) == Len(sizes) - 1 # Len(activations)

\* the number of layers the constructor's loop appends
LayerCount(sizes) == Len(sizes) - 1

\* the number of weights the layers before layer i hold
RECURSIVE WeightsBefore(_, _)
WeightsBefore(sizes, i) ==
  IF i <= 1 THEN 0 ELSE WeightsBefore(sizes, i - 1) + sizes[i - 1] * sizes[i]

\* the draws of the i-th NewLayer call among those of the whole construction
DrawsOf(sizes, draws, i) ==
  SubSeq(draws, WeightsBefore(sizes, i) + 1, WeightsBefore(sizes, i + 1))

\* NewNeuralNetwork: [panic, layers]; the panic of the length check or of a
\* NewLayer call of the loop leaves no network
NewNeuralNetwork(sizes, activations, draws) ==
  IF \/ ConstructPanics(sizes, activations)
     \/ \E i \in 1..LayerCount(sizes) : NewLayerPanics(sizes[i], sizes[i + 1])
  THEN [panic |-> TRUE, layers |-> <<>>]
  ELSE [panic |-> FALSE,
        layers |-> [i \in 1..LayerCount(sizes) |->
                      NewLayer(sizes[i], sizes[i + 1], activations[i],
                               DrawsOf(sizes, draws, i)).layer]]

\* Forward from layer k on: input = layer.Forward(input) for each layer in order
RECURSIVE ForwardFrom(_, _, _)

\* the loop's step once layer k returned r
ForwardStep(layers, k, r) ==
  IF r.panic
  THEN [panic |-> TRUE, layers |-> [layers EXCEPT ![k] = r.layer], out |-> <<>>]
  ELSE ForwardFrom([layers EXCEPT ![k] = r.layer], k + 1, r.out)

ForwardFrom(layers, k, input) ==
  IF k > Len(layers) THEN [panic |-> FALSE, layers |-> layers, out |-> input]
  ELSE ForwardStep(layers, k, LayerForward(layers[k], input))

Forward(layers, input) == ForwardFrom(layers, 1, input)

\* a forward pass that skips the first layer
PredictSkipping(layers, input) == ForwardFrom(layers, 2, input)

\* Predict runs the forward pass only
Predict(layers, input) == Forward(layers, input)

\* for i := len(nn.Layers) - 1; i >= 0; i-- { errorGrad = Layers[i].Backward(...) }
RECURSIVE BackwardFrom(_, _, _, _)

\* the loop's step once layer k returned r
BackwardStep(layers, k, r, learningRate) ==
  IF r.panic THEN [panic |-> TRUE, layers |-> [layers EXCEPT ![k] = r.layer]]
  ELSE BackwardFrom([layers EXCEPT ![k] = r.layer], k - 1, r.prevError, learningRate)

BackwardFrom(layers, k, errorGrad, learningRate) ==
  IF k = 0 THEN [panic |-> FALSE, layers |-> layers]
  ELSE BackwardStep(layers, k, LayerBackward(layers[k], errorGrad, learningRate),
                    learningRate)

\* a backward pass that visits the layers without applying the learning rate
TrainBackwardUnapplied(layers, ce, learningRate) ==
  IF ce.panic THEN [panic |-> TRUE, layers |-> layers]
  ELSE BackwardFrom(layers, Len(layers), ce.grad, Zero)

\* the backward pass, given what CrossEntropyLoss returned
TrainBackward(layers, ce, learningRate) ==
  IF ce.panic THEN [panic |-> TRUE, layers |-> layers]
  ELSE BackwardFrom(layers, Len(layers), ce.grad, learningRate)

\* the rest of Train, given what Forward returned
TrainForwarded(f, target, learningRate) ==
  IF f.panic THEN [panic |-> TRUE, layers |-> f.layers]
  ELSE TrainBackward(f.layers, CrossEntropyLoss(f.out, target), learningRate)

Train(layers, input, target, learningRate) ==
  TrainForwarded(Forward(layers, input), target, learningRate)

\* layerGrads, layerBiasGrads: zeros in the shape of the parameters at entry
ZeroGrads(layers) ==
  [wg |-> [l \in DOMAIN layers |-> [j \in DOMAIN layers[l].Weights |->
              Zeros(Len(layers[l].Weights[j]))]],
   bg |-> [l \in DOMAIN layers |-> Zeros(Len(layers[l].Biases))]]

\* the errorGrad TrainBatch recomputes: sum over k of deltas[k] * Weights[k][j]
BatchPrevError(l1) ==
  [j \in DOMAIN l1.inputs |->
     SumFrom(Zero, [k \in DOMAIN l1.deltas |-> Mul(l1.deltas[k], l1.Weights[k][j])],
             Len(l1.deltas))]

\* the accumulation of one sample's gradients, given the layer Backward left
BatchAccumulate(l1, panicked, wg, bg) ==
  IF panicked \/ (\E k \in DOMAIN l1.deltas : k > Len(bg))
  THEN [panic |-> TRUE, layer |-> l1, errorGrad |-> <<>>, wg |-> wg, bg |-> bg]
  ELSE [panic |-> FALSE, layer |-> l1,
        errorGrad |-> BatchPrevError(l1),
        wg |-> [k \in DOMAIN wg |-> [j \in DOMAIN wg[k] |->
            IF k <= Len(l1.deltas) /\ j <= Len(l1.inputs)
            THEN Add(wg[k][j], Mul(l1.deltas[k], l1.inputs[j]))
            ELSE wg[k][j]]],
        bg |-> [k \in DOMAIN bg |->
            IF k <= Len(l1.deltas) THEN Add(bg[k], l1.deltas[k]) ELSE bg[k]]]

BatchBackwardResult(b, wg, bg) == BatchAccumulate(b.layer, b.panic, wg, bg)

\* one layer of a sample's backward sweep in TrainBatch: Backward with rate 0,
\* then the recomputed errorGrad and the accumulation of the gradients
BatchLayerStep(layer, errorGrad, wg, bg) ==
  BatchBackwardResult(LayerBackward(layer, errorGrad, Zero), wg, bg)

\* the backward sweep of one sample, from layer l down to the first
RECURSIVE BatchBackward(_, _, _, _)

\* the sweep's step once layer l returned r
BatchBackwardStep(layers, l, r, acc) ==
  IF r.panic
  THEN [panic |-> TRUE, layers |-> [layers EXCEPT ![l] = r.layer], acc |-> acc]
  ELSE BatchBackward([layers EXCEPT ![l] = r.layer], l - 1, r.errorGrad,
                     [wg |-> [acc.wg EXCEPT ![l] = r.wg],
                      bg |-> [acc.bg EXCEPT ![l] = r.bg]])

BatchBackward(layers, l, errorGrad, acc) ==
  IF l = 0 THEN [panic |-> FALSE, layers |-> layers, acc |-> acc]
  ELSE BatchBackwardStep(layers, l,
         BatchLayerStep(layers[l], errorGrad, acc.wg[l], acc.bg[l]), acc)

\* the sample loop: for idx := 0; idx < batchSize; idx++
RECURSIVE BatchSamples(_, _, _, _, _)

\* the loop goes on to the next sample unless the sweep panicked
BatchSampleSwept(b, inputs, targets, idx) ==
  IF b.panic THEN b ELSE BatchSamples(b.layers, inputs, targets, idx + 1, b.acc)

\* the sweep of sample idx, given what CrossEntropyLoss returned
BatchSampleLoss(layers, ce, inputs, targets, idx, acc) ==
  IF ce.panic THEN [panic |-> TRUE, layers |-> layers, acc |-> acc]
  ELSE BatchSampleSwept(BatchBackward(layers, Len(layers), ce.grad, acc),
                        inputs, targets, idx)

\* the rest of sample idx, given what Forward returned
BatchSampleForwarded(f, inputs, targets, idx, acc) ==
  IF f.panic \/ idx > Len(targets)
  THEN [panic |-> TRUE, layers |-> f.layers, acc |-> acc]
  ELSE BatchSampleLoss(f.layers, CrossEntropyLoss(f.out, targets[idx]),
                       inputs, targets, idx, acc)

BatchSamples(layers, inputs, targets, idx, acc) ==
  IF idx > Len(inputs) THEN [panic |-> FALSE, layers |-> layers, acc |-> acc]
  ELSE BatchSampleForwarded(Forward(layers, inputs[idx]), inputs, targets, idx, acc)

\* a final update that does not divide by the batch size
BatchUpdatedUnaveraged(p, learningRate, grad, batchSize) ==
  Sub(p, Mul(learningRate, grad))

\* layer.Weights[j][k] -= learningRate * layerGrads[i][j][k] / float64(batchSize)
BatchUpdated(p, learningRate, grad, batchSize) ==
  Sub(p, Div(Mul(learningRate, grad), R(batchSize)))

\* the first row of a layer whose bias update panics, Len(Weights)+1 if none
FirstBadBias(layer) ==
  LET bad == {j \in DOMAIN layer.Weights : j > Len(layer.Biases)}
  IN IF bad = {} THEN Len(layer.Weights) + 1
     ELSE CHOOSE j \in bad : \A k \in bad : j <= k

\* the final update of one layer, run up to the row at which it panics
BatchApplyLayer(layer, wg, bg, learningRate, batchSize) ==
  LET fb == FirstBadBias(layer)
  IN [layer EXCEPT
        !.Weights = [j \in DOMAIN layer.Weights |-> [k \in DOMAIN layer.Weights[j] |->
            IF j <= fb
            THEN BatchUpdated(layer.Weights[j][k], learningRate, wg[j][k], batchSize)
            ELSE layer.Weights[j][k]]],
        !.Biases = [j \in DOMAIN layer.Biases |->
            IF j < fb /\ j <= Len(layer.Weights)
            THEN BatchUpdated(layer.Biases[j], learningRate, bg[j], batchSize)
            ELSE layer.Biases[j]]]

\* the final loop over the layers, from layer i on
RECURSIVE BatchApply(_, _, _, _, _)
BatchApply(layers, i, acc, learningRate, batchSize) ==
  IF i > Len(layers) THEN [panic |-> FALSE, layers |-> layers]
  ELSE LET ls == [layers EXCEPT
                    ![i] = BatchApplyLayer(layers[i], acc.wg[i], acc.bg[i],
                                           learningRate, batchSize)]
       IN IF FirstBadBias(layers[i]) <= Len(layers[i].Weights)
          THEN [panic |-> TRUE, layers |-> ls]
          ELSE BatchApply(ls, i + 1, acc, learningRate, batchSize)

\* the final update, given what the sample loop left
BatchFinish(s, learningRate, batchSize) ==
  IF s.panic THEN [panic |-> TRUE, layers |-> s.layers]
  ELSE BatchApply(s.layers, 1, s.acc, learningRate, batchSize)

TrainBatch(layers, inputs, targets, learningRate) ==
  BatchFinish(BatchSamples(layers, inputs, targets, 1, ZeroGrads(layers)),
              learningRate, Len(inputs))

\* the weights and biases of every layer
Params(layers) ==
  [l \in DOMAIN layers |-> [W |-> layers[l].Weights, b |-> layers[l].Biases]]

\* no number of the network left the model's range
LayersOK(layers) ==
  \A l \in DOMAIN layers :
     /\ MatOK(layers[l].Weights) /\ VecOK(layers[l].Biases)
     /\ VecOK(layers[l].inputs) /\ VecOK(layers[l].outputs)
     /\ VecOK(layers[l].deltas) /\ VecOK(layers[l].Activation.lastOutput)

(***************************************************************************)
(* serialize.go: Save and Load.  A string is a sequence of characters.  A  *)
(* JSON number is the text of a float64: a sign and the decimal digits of  *)
(* the numerator and the denominator of the model's rational.  A file is   *)
(* <<>> (no file) or <<doc>>, doc == [wellFormed, layers]; each layer of a *)
(* doc is a serialLayer [weights, biases, activation].                     *)
(***************************************************************************)
\* the characters of the model that have a lower-case form, and that form
\* (unicode.ToLower).  A character outside ASCII is written by its code
\* point.  The table holds the ASCII capitals; U+0130 (capital I with dot)
\* and U+212A (the Kelvin sign), the two characters outside ASCII whose
\* lower-case form is an ASCII letter; and two capitals whose lower-case form
\* is outside ASCII, as that of every other capital is
UpperChars == <<"A", "B", "C", "D", "E", "F", "G", "H", "I", "J", "K", "L", "M",
                "N", "O", "P", "Q", "R", "S", "T", "U", "V", "W", "X", "Y", "Z",
                "U+0130", "U+212A", "U+00C9", "U+03A3">>
LowerChars == <<"a", "b", "c", "d", "e", "f", "g", "h", "i", "j", "k", "l", "m",
                "n", "o", "p", "q", "r", "s", "t", "u", "v", "w", "x", "y", "z",
                "i", "k", "U+00E9", "U+03C3">>

LowerChar(c) ==
  IF \E i \in DOMAIN UpperChars : UpperChars[i] = c
  THEN LowerChars[CHOOSE i \in DOMAIN UpperChars : UpperChars[i] = c]
  ELSE c

\* strings.ToLower
ToLower(str) == [i \in DOMAIN str |-> LowerChar(str[i])]

StrSigmoid == <<"s", "i", "g", "m", "o", "i", "d">>
StrRelu == <<"r", "e", "l", "u">>
StrSoftmax == <<"s", "o", "f", "t", "m", "a", "x">>
StrUnknown == <<"u", "n", "k", "n", "o", "w", "n">>

\* the type switch of activationName
activationName(act) ==
  CASE act.kind = "Sigmoid" -> StrSigmoid
    [] act.kind = "ReLU" -> StrRelu
    [] act.kind = "Softmax" -> StrSoftmax
    [] OTHER -> StrUnknown

\* the string the switch of activationFromName compares with its cases
SwitchKey(name) == ToLower(name)

\* the kind activationFromName returns, "" where it panics
activationFromName(name) ==
  CASE SwitchKey(name) = StrSigmoid -> "Sigmoid"
    [] SwitchKey(name) = StrRelu -> "ReLU"
    [] SwitchKey(name) = StrSoftmax -> "Softmax"
    [] OTHER -> ""

\* the decimal digits of a natural number
RECURSIVE Digits(_)
Digits(n) == IF n < 10 THEN <<n>> ELSE Append(Digits(n \div 10), n % 10)

\* the natural number a digit string denotes
RECURSIVE FromDigits(_, _)
FromDigits(ds, k) == IF k = 0 THEN 0 ELSE 10 * FromDigits(ds, k - 1) + ds[k]

\* the text json.Marshal writes for a float64; the text of a value the model
\* holds as a symbol, or of one out of its range, carries the symbol in place
\* of the denominator's digits
FormatFloat(x) ==
  [neg |-> x[1] < 0, num |-> Digits(Abs(x[1])),
   den |-> IF x[2] > 0 THEN Digits(x[2]) ELSE <<x[2]>>]

\* the denominator, or the symbol, a number's text carries
ParseDen(den) ==
  IF Len(den) = 1 /\ den[1] <= 0 THEN den[1] ELSE FromDigits(den, Len(den))

\* the float64 json.Unmarshal reads from a number's text: the one that was
\* written
ParseFloat(t) ==
  LET n == FromDigits(t.num, Len(t.num))
  IN <<IF t.neg THEN -n ELSE n, ParseDen(t.den)>>

\* json.Marshal refuses NaN and the infinities (UnsupportedValueError), and
\* no other float64
Marshallable(layers) ==
  \A l \in DOMAIN layers :
     /\ \A i \in DOMAIN layers[l].Weights : \A j \in DOMAIN layers[l].Weights[i] :
           layers[l].Weights[i][j] # NaN /\ ~IsInf(layers[l].Weights[i][j])
     /\ \A i \in DOMAIN layers[l].Biases :
           layers[l].Biases[i] # NaN /\ ~IsInf(layers[l].Biases[i])

\* the serialLayer Save builds for a layer, as marshalled
SerialLayer(layer) ==
  [weights |-> [i \in DOMAIN layer.Weights |-> [j \in DOMAIN layer.Weights[i] |->
                   FormatFloat(layer.Weights[i][j])]],
   biases |-> [i \in DOMAIN layer.Biases |-> FormatFloat(layer.Biases[i])],
   activation |-> activationName(layer.Activation)]

\* Save: [err, file]; on a marshalling error nothing is written
Save(layers, old) ==
  IF ~Marshallable(layers) THEN [err |-> TRUE, file |-> old]
  ELSE [err |-> FALSE,
        file |-> <<[wellFormed |-> TRUE,
                    layers |-> [l \in DOMAIN layers |-> SerialLayer(layers[l])]]>>]

\* the Layer Load builds from a serialLayer whose tag is recognised
LoadedLayer(sl) ==
  [Weights |-> [i \in DOMAIN sl.weights |-> [j \in DOMAIN sl.weights[i] |->
                   ParseFloat(sl.weights[i][j])]],
   Biases |-> [i \in DOMAIN sl.biases |-> ParseFloat(sl.biases[i])],
   Activation |-> Plain(activationFromName(sl.activation)),
   inputs |-> <<>>, outputs |-> <<>>, deltas |-> <<>>]

\* Load: [err, panic, layers]; err for a missing or malformed file, panic for
\* an activation tag activationFromName does not know
Load(f) ==
  IF f = <<>> \/ ~f[1].wellFormed
  THEN [err |-> TRUE, panic |-> FALSE, layers |-> <<>>]
  ELSE IF \E l \in DOMAIN f[1].layers : activationFromName(f[1].layers[l].activation) = ""
  THEN [err |-> FALSE, panic |-> TRUE, layers |-> <<>>]
  ELSE [err |-> FALSE, panic |-> FALSE,
        layers |-> [l \in DOMAIN f[1].layers |-> LoadedLayer(f[1].layers[l])]]

(***************************************************************************)
(* The inputs the model draws the calls' arguments from.                   *)
(***************************************************************************)
SizeLists == { <<>>, <<2>>, <<2, 1>>, <<2, 2>>, <<1, 1, 2>>, <<2, -1>>, <<-1, 2>> }

\* the Alpha of the literals: the zero value, the 0.01 the comment on
\* LeakyReLU names, and 1
Alphas == { Zero, <<1, 100>>, One }

\* every activation a caller can pass
Activations ==
  { Plain(kind) : kind \in Kinds \ {"LeakyReLU", "ELU"} }
  \cup { WithAlpha(kind, alpha) : kind \in {"LeakyReLU", "ELU"}, alpha \in Alphas }

ActLists == { <<>>, <<Plain("ReLU")>>, <<Plain("Sigmoid")>>, <<Plain("Softmax")>>,
              <<WithAlpha("LeakyReLU", <<1, 100>>)>>,
              <<Plain("ReLU"), Plain("Softmax")>> }

\* the values a drawn weight takes in the model: two of [-0.1, 0.1)
WeightDraws == { <<1, 16>>, <<-3, 32>> }

\* the sequences of n independent draws
DrawSeqs(n) == [1..n -> WeightDraws]

\* the number of weights a construction from sizes draws (none if it fails)
DrawCount(sizes) ==
  IF \/ Len(sizes) = 0
     \/ \E i \in 1..LayerCount(sizes) : NewLayerPanics(sizes[i], sizes[i + 1])
  THEN 0
  ELSE WeightsBefore(sizes, Len(sizes))

InputVecs == { <<One>>, <<One, Zero>>, <<One, R(2)>>, <<Zero, One, One>> }

TargetVecs == { <<One>>, <<One, Zero>>, <<Zero, One>> }

Rates == { <<-1, 2>>, Zero, <<1, 2>> }

BatchInputs == { <<>>, << <<One, Zero>> >>, << <<One>> >>,
                 << <<One, Zero>>, <<Zero, One>> >> }

BatchTargets == { <<>>, << <<One, Zero>> >>, << <<One, Zero>>, <<Zero, One>> >> }

StrTanh == <<"t", "a", "n", "h">>
ExternalTags == { StrSigmoid, StrRelu, StrSoftmax,
                  <<"S", "i", "g", "m", "o", "i", "d">>, <<"R", "E", "L", "U">>,
                  <<"s", "U+0130", "g", "m", "o", "i", "d">>,
                  StrTanh, StrUnknown, <<>> }

\* a one-layer document with the given tag, weights and biases
Doc(tag, W, b) ==
  [wellFormed |-> TRUE,
   layers |-> << [weights |-> [i \in DOMAIN W |-> [j \in DOMAIN W[i] |->
                                  FormatFloat(W[i][j])]],
                  biases |-> [i \in DOMAIN b |-> FormatFloat(b[i])],
                  activation |-> tag] >>]

\* the files the environment may have written before the program runs:
\* documents of one 2-to-2 layer, a document whose layer has two rows of
\* weights and one bias, and a file that is not JSON
ExternalDocs ==
  { Doc(tag, << <<One, R(-1)>>, <<Zero, <<1, 2>> >> >>, <<Zero, One>>) : tag \in ExternalTags }
  \cup { Doc(StrSigmoid, << <<One, R(-1)>>, <<Zero, <<1, 2>> >> >>, <<Zero>>) }
  \cup { [wellFormed |-> FALSE, layers |-> <<>>] }

(***************************************************************************)
(* The state machine: a program that builds or loads one network and then  *)
(* calls its methods.  status is "none" before the network exists, "ready" *)
(* while it can be called, "panic" once a call panicked (the program is    *)
(* dead).  call records the last call with the network and the file as     *)
(* they were before it; ret is what the call returned.                     *)
(***************************************************************************)
NoRet == [panic |-> FALSE, err |-> FALSE, out |-> <<>>]

\* no MDP has been built yet (the nil *MDP)
NoMDP ==
  [States |-> <<>>, Actions |-> <<>>, Transitions |-> <<>>, Discount |-> <<0, 1>>,
   ValueFunc |-> <<>>, Policy |-> <<>>, Tolerance |-> <<0, 1>>, MaxIterations |-> 0]

Called(op, args) == [op |-> op, args |-> args, pre |-> nn, preFile |-> file]

Init ==
  /\ nn = <<>>
  /\ file = <<>>
  /\ status = "none"
  /\ call = [op |-> "none", args |-> <<>>, pre |-> <<>>, preFile |-> <<>>]
  /\ ret = NoRet
  /\ nops = 0
  /\ mdp = NoMDP

\* the environment leaves a model file before the program starts
WriteFile(doc) ==
  /\ status = "none" /\ call.op = "none" /\ file = <<>>
  /\ file' = <<doc>>
  /\ UNCHANGED <<nn, status, call, ret, nops, mdp>>

\* a run builds its network unless it found a model file to load
CallNewNeuralNetwork(sizes, activations, draws) ==
  /\ status = "none" /\ file = <<>>
  /\ call' = Called("NewNeuralNetwork", <<sizes, activations>>)
  /\ IF NewNeuralNetwork(sizes, activations, draws).panic
     THEN /\ status' = "panic"
          /\ ret' = [NoRet EXCEPT !.panic = TRUE]
          /\ nn' = nn
     ELSE /\ status' = "ready"
          /\ ret' = NoRet
          /\ nn' = NewNeuralNetwork(sizes, activations, draws).layers
  /\ UNCHANGED <<file, nops, mdp>>

\* the effect shared by the calls that run on the network
Ran(op, args, r, out) ==
  /\ LayersOK(r.layers) /\ VecOK(out)
  /\ call' = Called(op, args)
  /\ nn' = r.layers
  /\ status' = IF r.panic THEN "panic" ELSE "ready"
  /\ ret' = [panic |-> r.panic, err |-> FALSE, out |-> out]
  /\ nops' = nops + 1
  /\ UNCHANGED <<file, mdp>>

\* a call that returns the output vector
RanOut(op, args, r) == Ran(op, args, r, r.out)

CallForward(input) ==
  /\ status = "ready" /\ nops < MaxOps
  /\ RanOut("Forward", <<input>>, Forward(nn, input))

CallPredict(input) ==
  /\ status = "ready" /\ nops < MaxOps
  /\ RanOut("Predict", <<input>>, Predict(nn, input))

CallTrain(input, target, learningRate) ==
  /\ status = "ready" /\ nops < MaxOps
  /\ Ran("Train", <<input, target, learningRate>>,
         Train(nn, input, target, learningRate), <<>>)

CallTrainBatch(inputs, targets, learningRate) ==
  /\ status = "ready" /\ nops < MaxOps
  /\ Ran("TrainBatch", <<inputs, targets, learningRate>>,
         TrainBatch(nn, inputs, targets, learningRate), <<>>)

CallSave ==
  /\ status = "ready"
  /\ LET r == Save(nn, file)
     IN /\ file' = r.file
        /\ ret' = [NoRet EXCEPT !.err = r.err]
  /\ call' = Called("Save", <<>>)
  /\ UNCHANGED <<nn, status, nops, mdp>>

CallLoad ==
  /\ status \in {"none", "ready"}
  /\ LET r == Load(file)
     IN /\ ret' = [panic |-> r.panic, err |-> r.err, out |-> <<>>]
        /\ nn' = IF r.err \/ r.panic THEN nn ELSE r.layers
        /\ status' = IF r.panic THEN "panic" ELSE IF r.err THEN status ELSE "ready"
  /\ call' = Called("Load", <<>>)
  /\ UNCHANGED <<file, nops, mdp>>

Next ==
  \/ \E doc \in ExternalDocs : WriteFile(doc)
  \/ \E sizes \in SizeLists, activations \in ActLists :
        \E draws \in DrawSeqs(DrawCount(sizes)) :
           CallNewNeuralNetwork(sizes, activations, draws)
  \/ \E input \in InputVecs : CallForward(input)
  \/ \E input \in InputVecs : CallPredict(input)
  \/ \E input \in InputVecs, target \in TargetVecs, learningRate \in Rates :
        CallTrain(input, target, learningRate)
  \/ \E inputs \in BatchInputs, targets \in BatchTargets, learningRate \in Rates :
        CallTrainBatch(inputs, targets, learningRate)
  \/ CallSave
  \/ CallLoad

Spec == Init /\ [][Next]_vars

(***************************************************************************)
(* A second state machine for the stateless functions of utils.go and      *)
(* loss.go: a run makes one call on drawn arguments; call records the      *)
(* call and ret what it returned.                                          *)
(***************************************************************************)
\* longest vector handed to ArgMax
MaxLen == 3
\* longest vector handed to the loss functions
MaxLossLen == 2
\* largest number of rows handed to Accuracy
MaxRows == 2

\* the values of the drawn vectors: a NaN and three ordered numbers
UtilVals == { NaN, Zero, <<1, 2>>, One }

\* the vectors over vals of length at most n
VecsUpTo(vals, n) == UNION { [1..k -> vals] : k \in 0..n }

\* the values of the vectors handed to Softmax.ActivateVector: UtilVals, a
\* negative number and a number above one
SoftVals == UtilVals \cup { R(-1), R(2) }

\* the rows of the prediction and target lists handed to Accuracy
AccRows == { <<>>, <<One, Zero>>, <<Zero, One>>, <<One, One>>, <<NaN, One>> }

InitUtil ==
  /\ nn = <<>>
  /\ file = <<>>
  /\ status = "none"
  /\ call = [op |-> "none", args |-> <<>>, pre |-> <<>>, preFile |-> <<>>]
  /\ ret = NoRet
  /\ nops = 0
  /\ mdp = NoMDP

\* the effect shared by the calls of the stateless functions
Returned(op, args, panicked, out) ==
  /\ call' = Called(op, args)
  /\ ret' = [panic |-> panicked, err |-> FALSE, out |-> out]
  /\ status' = IF panicked THEN "panic" ELSE "done"
  /\ nops' = nops + 1
  /\ UNCHANGED <<nn, file, mdp>>

CallArgMax(vec) ==
  /\ status = "none"
  /\ Returned("ArgMax", <<vec>>, FALSE, ArgMax(vec))

CallAccuracy(predictions, targets) ==
  /\ status = "none"
  /\ Returned("Accuracy", <<predictions, targets>>, FALSE,
              Accuracy(predictions, targets))

\* a loss function returned r
ReturnedLoss(op, args, r) ==
  /\ r.loss # Huge /\ VecOK(r.grad)
  /\ Returned(op, args, r.panic, [loss |-> r.loss, grad |-> r.grad])

CallCrossEntropyLoss(predicted, target) ==
  /\ status = "none"
  /\ ReturnedLoss("CrossEntropyLoss", <<predicted, target>>,
               CrossEntropyLoss(predicted, target))

CallMSELoss(predicted, target) ==
  /\ status = "none"
  /\ ReturnedLoss("MSELoss", <<predicted, target>>, MSELoss(predicted, target))

\* (&Softmax{}).ActivateVector(input); input[0] panics on an empty vector
CallActivateVector(input) ==
  /\ status = "none"
  /\ IF Len(input) = 0
     THEN Returned("ActivateVector", <<input>>, TRUE, <<>>)
     ELSE /\ VecOK(ActivateVector(input))
          /\ Returned("ActivateVector", <<input>>, FALSE, ActivateVector(input))

NextUtil ==
  \/ \E vec \in VecsUpTo(UtilVals, MaxLen) : CallArgMax(vec)
  \/ \E input \in VecsUpTo(SoftVals, MaxLen) : CallActivateVector(input)
  \/ \E predictions \in VecsUpTo(AccRows, MaxRows), targets \in VecsUpTo(AccRows, MaxRows) :
        CallAccuracy(predictions, targets)
  \/ \E predicted \in VecsUpTo(UtilVals, MaxLossLen), target \in VecsUpTo(UtilVals, MaxLossLen) :
        CallCrossEntropyLoss(predicted, target)
  \/ \E predicted \in VecsUpTo(UtilVals, MaxLossLen), target \in VecsUpTo(UtilVals, MaxLossLen) :
        CallMSELoss(predicted, target)

SpecUtil == InitUtil /\ [][NextUtil]_vars

(***************************************************************************)
(* A third state machine for one Layer used on its own: a run builds a     *)
(* layer with NewLayer and calls its Forward and Backward in any order.    *)
(* nn holds the one layer; call and ret record the last call as in Spec.   *)
(***************************************************************************)
\* the number of Forward and Backward calls of a run
MaxLayerOps == 3

\* the (inputSize, outputSize) pairs handed to NewLayer
LayerShapes == { <<2, 2>>, <<2, 1>>, <<1, 2>>, <<2, -1>>, <<-1, 2>> }

\* the error gradients handed to Layer.Backward
GradVecs == { <<>>, <<One>>, <<One, R(-1)>>, << <<1, 2>>, One, Zero >> }

CallNewLayer(inputSize, outputSize, activation, draws) ==
  /\ status = "none"
  /\ call' = Called("NewLayer", <<inputSize, outputSize, activation>>)
  /\ IF NewLayer(inputSize, outputSize, activation, draws).panic
     THEN /\ status' = "panic"
          /\ ret' = [NoRet EXCEPT !.panic = TRUE]
          /\ nn' = nn
     ELSE /\ status' = "ready"
          /\ ret' = NoRet
          /\ nn' = << NewLayer(inputSize, outputSize, activation, draws).layer >>
  /\ UNCHANGED <<file, nops, mdp>>

\* the effect shared by the calls on the layer: r is [panic, layer, ...]
LayerRan(op, args, r, out) ==
  Ran(op, args, [panic |-> r.panic, layers |-> << r.layer >>], out)

LayerForwardRan(args, r) == LayerRan("Layer.Forward", args, r, r.out)

LayerBackwardRan(args, r) == LayerRan("Layer.Backward", args, r, r.prevError)

CallLayerForward(input) ==
  /\ status = "ready" /\ nops < MaxLayerOps
  /\ LayerForwardRan(<<input>>, LayerForward(nn[1], input))

CallLayerBackward(errorGrad, learningRate) ==
  /\ status = "ready" /\ nops < MaxLayerOps
  /\ LayerBackwardRan(<<errorGrad, learningRate>>,
                      LayerBackward(nn[1], errorGrad, learningRate))

NextLayer ==
  \/ \E shape \in LayerShapes, activation \in Activations :
        \E draws \in DrawSeqs(shape[1] * shape[2]) :
           CallNewLayer(shape[1], shape[2], activation, draws)
  \/ \E input \in InputVecs : CallLayerForward(input)
  \/ \E errorGrad \in GradVecs, learningRate \in Rates :
        CallLayerBackward(errorGrad, learningRate)

SpecLayer == Init /\ [][NextLayer]_vars

(***************************************************************************)
(* A fourth state machine for a training session: a run builds one of a    *)
(* few networks and makes several Forward, Train and TrainBatch calls in a *)
(* row, so that a call finds in the layers what earlier calls cached.      *)
(***************************************************************************)
\* the number of calls of a session
MaxSessionOps == 2

\* the networks of a session: sizes and activations
SessionNets ==
  { [sizes |-> <<1, 2>>, activations |-> <<Plain("Softmax")>>],
    [sizes |-> <<1, 2>>, activations |-> <<Plain("Sigmoid")>>],
    [sizes |-> <<1, 1, 2>>, activations |-> <<Plain("ReLU"), Plain("Softmax")>>] }

\* the batches of a session: two different samples of width 1 or of width 2
SessionBatches ==
  { << <<R(2)>>, <<R(3)>> >>, << <<One, Zero>>, <<Zero, One>> >> }

SessionBatchTargets == { << <<One, Zero>>, <<Zero, One>> >> }

SessionForward(input) ==
  /\ status = "ready" /\ nops < MaxSessionOps
  /\ RanOut("Forward", <<input>>, Forward(nn, input))

SessionTrain(input, target, learningRate) ==
  /\ status = "ready" /\ nops < MaxSessionOps
  /\ Ran("Train", <<input, target, learningRate>>,
         Train(nn, input, target, learningRate), <<>>)

SessionTrainBatch(inputs, targets, learningRate) ==
  /\ status = "ready" /\ nops < MaxSessionOps
  /\ Ran("TrainBatch", <<inputs, targets, learningRate>>,
         TrainBatch(nn, inputs, targets, learningRate), <<>>)

NextSession ==
  \/ \E net \in SessionNets :
        \E draws \in DrawSeqs(DrawCount(net.sizes)) :
           CallNewNeuralNetwork(net.sizes, net.activations, draws)
  \/ \E input \in InputVecs : SessionForward(input)
  \/ \E input \in InputVecs, target \in TargetVecs, learningRate \in Rates :
        SessionTrain(input, target, learningRate)
  \/ \E inputs \in SessionBatches, targets \in SessionBatchTargets,
        learningRate \in Rates :
        SessionTrainBatch(inputs, targets, learningRate)

SpecSession == Init /\ [][NextSession]_vars

(***************************************************************************)
(* The claims about the network, checked under Spec.  A state records in   *)
(* call the last call and the network before it (call.pre), in ret what    *)
(* the call returned, in nn the network as the call left it.               *)
(***************************************************************************)

\* C1: after Train(x, y, lr), running TrainBatch([x], [y], lr) on the network as
\* it was before that call leaves every layer with the same weights and biases
\* as Train left.
C1_BatchSingleEquivalence ==
  call.op = "Train" =>
    LET b == TrainBatch(call.pre, <<call.args[1]>>, <<call.args[2]>>, call.args[3])
    IN LayersOK(b.layers) => Params(b.layers) = Params(nn)

\* C2: on a network with layer sizes s0, ..., sL, Forward returns an output of
\* length sL when the input has length s0, and fails on an input of any other
\* length.
C2_ForwardShape ==
  (call.op = "Forward" /\ Len(call.pre) > 0 /\ Len(call.pre[1].Weights) > 0) =>
    LET s0 == Len(call.pre[1].Weights[1])
        sL == Len(call.pre[Len(call.pre)].Weights)
    IN IF Len(call.args[1]) = s0
       THEN ~ret.panic /\ Len(ret.out) = sL
       ELSE ret.panic

\* C3: for a network whose layers are all Sigmoid, ReLU or Softmax, Save
\* writes a file of which Load returns a network with as many layers, each with
\* the same weights, biases and activation kind, and Predict gives on it what it
\* gives on the saved network, on every probe input.
C3_SaveLoadRoundTrip ==
  (/\ call.op = "Save"
   /\ \A l \in DOMAIN nn : nn[l].Activation.kind \in {"Sigmoid", "ReLU", "Softmax"}) =>
    /\ ~ret.err
    /\ LET r == Load(file)
       IN /\ ~r.err /\ ~r.panic
          /\ Len(r.layers) = Len(nn)
          /\ \A l \in DOMAIN nn :
                /\ r.layers[l].Weights = nn[l].Weights
                /\ r.layers[l].Biases = nn[l].Biases
                /\ r.layers[l].Activation.kind = nn[l].Activation.kind
          /\ \A input \in InputVecs :
                /\ Predict(r.layers, input).panic = Predict(nn, input).panic
                /\ Predict(r.layers, input).out = Predict(nn, input).out

\* C4: Load of a well-formed file in which some layer's tag is not exactly
\* "sigmoid", "relu" or "softmax" panics and yields no network.
C4_ExactTagsOnly ==
  (/\ call.op = "Load" /\ call.preFile # <<>> /\ call.preFile[1].wellFormed
   /\ \E l \in DOMAIN call.preFile[1].layers :
         call.preFile[1].layers[l].activation \notin {StrSigmoid, StrRelu, StrSoftmax}) =>
    ret.panic /\ nn = call.pre

\* C5: NewNeuralNetwork fails when len(activations) # len(sizes) - 1; when it
\* succeeds the network has len(sizes) - 1 layers and len(sizes) >= 2, so at
\* least one layer.
C5_ConstructionError ==
  call.op = "NewNeuralNetwork" =>
    /\ Len(call.args[2]) # Len(call.args[1]) - 1 => ret.panic
    /\ ~ret.panic =>
         /\ Len(nn) = Len(call.args[1]) - 1
         /\ Len(call.args[1]) >= 2
         /\ Len(nn) >= 1

\* C7: Predict returns what Forward returns on the network as it was, leaves
\* every layer's weights and biases unchanged, and writes nothing but the
\* layers' caches of the last input and the last output.
C7_PredictPure ==
  call.op = "Predict" =>
    /\ ret.panic = Forward(call.pre, call.args[1]).panic
    /\ ret.out = Forward(call.pre, call.args[1]).out
    /\ Params(nn) = Params(call.pre)
    /\ Len(nn) = Len(call.pre)
    /\ \A l \in DOMAIN nn :
          [nn[l] EXCEPT !.inputs = call.pre[l].inputs,
                        !.outputs = call.pre[l].outputs,
                        !.Activation.lastOutput = call.pre[l].Activation.lastOutput]
            = call.pre[l]

\* Predict returned an output and wrote the caches of a network with a layer
C7_Witness ==
  /\ call.op = "Predict" /\ ~ret.panic /\ Len(nn) > 0
  /\ Len(ret.out) > 0 /\ ret.out = nn[Len(nn)].outputs
  /\ nn[1].inputs = call.args[1] /\ call.pre[1].inputs # call.args[1]

\* C8: a TrainBatch call with len(inputs) # len(targets) fails.
C8_BatchLengthPrecondition ==
  (call.op = "TrainBatch" /\ Len(call.args[1]) # Len(call.args[2])) => ret.panic

\* C14: a TrainBatch that returns changed no weight and no bias while it went
\* through its samples, and then updated every parameter once: with delta and
\* input of each sample taken on the parameters the call began with,
\* W[i][j] -= lr * (sum over samples of delta_i * input_j) / batchSize and
\* b_i -= lr * (sum over samples of delta_i) / batchSize.  (A sample whose
\* layer input is shorter than the row has no input_j to contribute.)
C14_BatchOneAveragedUpdate ==
  (call.op = "TrainBatch" /\ ~ret.panic) =>
    LET pre == call.pre
        inputs == call.args[1]
        targets == call.args[2]
        lr == call.args[3]
        n == Len(inputs)
        sw == [s \in DOMAIN inputs |->
                 Train(pre, inputs[s], targets[s], Zero).layers]
        gW(l, i, j) ==
          SumFrom(Zero, [s \in DOMAIN inputs |->
                           IF j > Len(sw[s][l].inputs) THEN Zero
                           ELSE Mul(sw[s][l].deltas[i], sw[s][l].inputs[j])], n)
        gb(l, i) == SumFrom(Zero, [s \in DOMAIN inputs |-> sw[s][l].deltas[i]], n)
    IN /\ Params(BatchSamples(pre, inputs, targets, 1, ZeroGrads(pre)).layers)
            = Params(pre)
       /\ \A s \in DOMAIN inputs : Params(sw[s]) = Params(pre)
       /\ \A l \in DOMAIN pre :
            /\ nn[l].Weights =
                 [i \in DOMAIN pre[l].Weights |-> [j \in DOMAIN pre[l].Weights[i] |->
                    Sub(pre[l].Weights[i][j], Div(Mul(lr, gW(l, i, j)), R(n)))]]
            /\ nn[l].Biases =
                 [i \in DOMAIN pre[l].Biases |->
                    Sub(pre[l].Biases[i], Div(Mul(lr, gb(l, i)), R(n)))]

\* a batch of two samples with different gradients was trained with a positive
\* rate and changed a weight
C14_Witness ==
  /\ call.op = "TrainBatch" /\ ~ret.panic /\ Len(call.args[1]) = 2
  /\ Gt(call.args[3], Zero) /\ Len(nn) > 0
  /\ Train(call.pre, call.args[1][1], call.args[2][1], Zero).layers[1].deltas
       # Train(call.pre, call.args[1][2], call.args[2][2], Zero).layers[1].deltas
  /\ \E l \in DOMAIN nn : nn[l].Weights # call.pre[l].Weights

\* C15: a Train that returns ran Forward once through the layers first to
\* last, took the gradient of CrossEntropyLoss(output, target), and ran Backward
\* once on each layer last to first, each layer receiving the prevError the
\* layer above returned (the last one the loss gradient) and applying the given
\* learning rate to its own parameters during its own call.
C15_TrainOrder ==
  (call.op = "Train" /\ ~ret.panic) =>
    LET pre == call.pre
        x == call.args[1]
        y == call.args[2]
        lr == call.args[3]
        N == Len(pre)
        fwd[k \in 0..N] ==
          IF k = 0 THEN [out |-> x] ELSE LayerForward(pre[k], fwd[k - 1].out)
        ce == CrossEntropyLoss(fwd[N].out, y)
        bwd[k \in 1..(N + 1)] ==
          IF k = N + 1 THEN [prevError |-> ce.grad]
          ELSE LayerBackward(fwd[k].layer, bwd[k + 1].prevError, lr)
    IN /\ Len(nn) = N
       /\ \A k \in 1..N :
            /\ nn[k] = bwd[k].layer
            /\ nn[k].inputs = fwd[k - 1].out
            /\ nn[k].outputs = fwd[k].out
            /\ Gt(lr, Zero) =>
                 \A i \in DOMAIN nn[k].Weights :
                   /\ nn[k].Biases[i] =
                        Sub(pre[k].Biases[i], Mul(lr, nn[k].deltas[i]))
                   /\ \A j \in DOMAIN nn[k].Weights[i] :
                        nn[k].Weights[i][j] =
                          Sub(pre[k].Weights[i][j],
                              Mul(Mul(lr, nn[k].deltas[i]), nn[k].inputs[j]))
            /\ ~Gt(lr, Zero) =>
                 nn[k].Weights = pre[k].Weights /\ nn[k].Biases = pre[k].Biases

\* a Train with a positive rate on a network of two layers changed weights of
\* both layers
C15_Witness ==
  /\ call.op = "Train" /\ ~ret.panic /\ Gt(call.args[3], Zero) /\ Len(nn) = 2
  /\ nn[1].Weights # call.pre[1].Weights
  /\ nn[2].Weights # call.pre[2].Weights

\* C21: the network a run holds, built by NewNeuralNetwork or returned by Load,
\* has at every moment, in every layer, as many biases as rows of weights, rows
\* of one length, and as many rows as the next layer's rows are long.
C21_ShapeInvariant ==
  \A l \in DOMAIN nn :
     /\ Len(nn[l].Biases) = Len(nn[l].Weights)
     /\ \A i, k \in DOMAIN nn[l].Weights :
          Len(nn[l].Weights[i]) = Len(nn[l].Weights[k])
     /\ (l < Len(nn) /\ Len(nn[l + 1].Weights) > 0) =>
          Len(nn[l + 1].Weights[1]) = Len(nn[l].Weights)

\* C22: a TrainBatch on an empty batch returns and leaves every weight and
\* every bias of every layer as it was before the call.
C22_EmptyBatchNoOp ==
  (/\ call.op = "TrainBatch"
   /\ Len(call.args[1]) = 0 /\ Len(call.args[2]) = 0) =>
    /\ ~ret.panic
    /\ Params(nn) = Params(call.pre)

\* C23: whenever Save returns without error, Load on the file it wrote returns
\* a network: no error, and no panic on an activation tag.
C23_SavedFileLoadable ==
  (call.op = "Save" /\ ~ret.err) =>
    (~Load(file).err /\ ~Load(file).panic)

(***************************************************************************)
(* The claim about the caches, checked under SpecSession, where a call     *)
(* finds in call.pre the inputs, outputs and deltas earlier calls left.    *)
(***************************************************************************)

\* C16: within a Train or TrainBatch that returns, the Backward of a layer reads
\* the inputs and outputs that the Forward of the same sample wrote on that
\* layer, never what an earlier sample or an earlier call left there: the call
\* leaves the network it would leave had every cache been empty when it began;
\* in a batch the gradient of each sample is the one that sample gives on a
\* network with empty caches, and the caches left are those of the last sample.
C16_CacheProtocol ==
  (call.op \in {"Train", "TrainBatch"} /\ ~ret.panic) =>
    LET pre == call.pre
        lr == call.args[3]
        cleared == [l \in DOMAIN pre |->
                      [pre[l] EXCEPT !.inputs = <<>>, !.outputs = <<>>,
                                     !.deltas = <<>>,
                                     !.Activation.lastOutput = <<>>]]
    IN IF call.op = "Train"
       THEN /\ nn = Train(cleared, call.args[1], call.args[2], lr).layers
            /\ \A l \in DOMAIN nn :
                 /\ nn[l].inputs = Forward(cleared, call.args[1]).layers[l].inputs
                 /\ nn[l].outputs = Forward(cleared, call.args[1]).layers[l].outputs
       ELSE LET inputs == call.args[1]
                targets == call.args[2]
                n == Len(inputs)
                sw == [s \in DOMAIN inputs |->
                         Train(cleared, inputs[s], targets[s], Zero).layers]
            IN \A l \in DOMAIN nn :
                 /\ nn[l].inputs = sw[n][l].inputs
                 /\ nn[l].outputs = sw[n][l].outputs
                 /\ nn[l].deltas = sw[n][l].deltas
                 /\ \A i \in DOMAIN nn[l].Weights :
                      /\ nn[l].Biases[i] =
                           Sub(pre[l].Biases[i],
                               Div(Mul(lr, SumFrom(Zero,
                                      [s \in DOMAIN inputs |-> sw[s][l].deltas[i]], n)),
                                   R(n)))
                      /\ \A j \in DOMAIN nn[l].Weights[i] :
                           nn[l].Weights[i][j] =
                             Sub(pre[l].Weights[i][j],
                                 Div(Mul(lr, SumFrom(Zero,
                                        [s \in DOMAIN inputs |->
                                           IF j > Len(sw[s][l].inputs) THEN Zero
                                           ELSE Mul(sw[s][l].deltas[i],
                                                    sw[s][l].inputs[j])], n)),
                                     R(n)))

\* a batch of two different samples was trained with a positive rate on a
\* network of two layers whose caches held another input from an earlier call,
\* and changed weights of the first layer
C16_Witness ==
  /\ call.op = "TrainBatch" /\ ~ret.panic /\ Gt(call.args[3], Zero)
  /\ Len(call.args[1]) = 2 /\ call.args[1][1] # call.args[1][2]
  /\ Len(nn) = 2
  /\ call.pre[1].inputs # <<>> /\ call.pre[1].outputs # <<>>
  /\ call.pre[1].inputs # call.args[1][1] /\ call.pre[1].inputs # call.args[1][2]
  /\ nn[1].inputs = call.args[1][2]
  /\ nn[1].Weights # call.pre[1].Weights

(***************************************************************************)
(* The claims about the stateless functions, checked under SpecUtil.       *)
(***************************************************************************)

\* C6: CrossEntropyLoss and MSELoss fail whenever len(predicted) # len(target).
C6_LossShapeMismatch ==
  (/\ call.op \in {"CrossEntropyLoss", "MSELoss"}
   /\ Len(call.args[1]) # Len(call.args[2])) => ret.panic

\* C9: Accuracy returns 0 when a list is empty or the lengths differ; otherwise
\* the number of rows whose ArgMax agree over the number of rows, a value in
\* [0, 1] that is 1 exactly when every row agrees.
C9_AccuracyDefinition ==
  call.op = "Accuracy" =>
    LET preds == call.args[1]
        targets == call.args[2]
        agree == {i \in DOMAIN preds : i \in DOMAIN targets
                                       /\ ArgMax(preds[i]) = ArgMax(targets[i])}
    IN IF Len(preds) = 0 \/ Len(targets) = 0 \/ Len(preds) # Len(targets)
       THEN ret.out = Zero
       ELSE /\ ret.out = Mk(Cardinality(agree), Len(preds))
            /\ Ge(ret.out, Zero) /\ Ge(One, ret.out)
            /\ ret.out = One <=> agree = DOMAIN preds

\* Accuracy returned 1/2 on two rows of which one agrees
C9_Witness ==
  /\ call.op = "Accuracy" /\ Len(call.args[1]) = 2 /\ Len(call.args[2]) = 2
  /\ ArgMax(call.args[1][1]) = ArgMax(call.args[2][1])
  /\ ArgMax(call.args[1][2]) # ArgMax(call.args[2][2])
  /\ ret.out = <<1, 2>>

\* C10 as stated: ArgMax returns -1 exactly for the empty vector; for a
\* non-empty vector it returns an index i in [0, len) with vec[i] >= vec[k] for
\* every k, the smallest such index.
C10_ArgMaxFirstMaximum ==
  call.op = "ArgMax" =>
    LET vec == call.args[1]
        i == ret.out
    IN /\ i = -1 <=> Len(vec) = 0
       /\ Len(vec) > 0 =>
            /\ i \in 0..(Len(vec) - 1)
            /\ \A k \in DOMAIN vec : Ge(vec[i + 1], vec[k])
            /\ \A k \in 1..i : ~Ge(vec[k], vec[i + 1])

\* C10 amended: ArgMax returns -1 exactly for the empty vector; for a non-empty
\* vector it returns an index in [0, len): 0 when the first entry is NaN, else
\* the smallest index i whose entry is a number with vec[i] >= vec[k] for every
\* k whose entry is a number.
C10_ArgMaxFirstMaximumOfNumbers ==
  call.op = "ArgMax" =>
    LET vec == call.args[1]
        i == ret.out
    IN /\ i = -1 <=> Len(vec) = 0
       /\ Len(vec) > 0 =>
            /\ i \in 0..(Len(vec) - 1)
            /\ IF vec[1] = NaN THEN i = 0
               ELSE /\ vec[i + 1] # NaN
                    /\ \A k \in DOMAIN vec : vec[k] # NaN => Ge(vec[i + 1], vec[k])
                    /\ \A k \in 1..i : ~Ge(vec[k], vec[i + 1])

\* ArgMax passed over a NaN: on the vector 0, NaN, 1 it returned the index of
\* the 1, the greatest of the numbers
C10_Witness ==
  /\ call.op = "ArgMax" /\ Len(call.args[1]) = 3
  /\ call.args[1][1] = Zero /\ call.args[1][2] = NaN /\ call.args[1][3] = One
  /\ ret.out = 2

\* C11: Softmax.ActivateVector on a non-empty vector v of numbers returns a
\* vector of the same length whose entries lie in [0, 1] and sum to 1, each entry
\* being exp(v_i - max) / sum_j exp(v_j - max) with max the largest entry of v.
C11_SoftmaxNormalization ==
  (/\ call.op = "ActivateVector" /\ Len(call.args[1]) > 0
   /\ \A k \in DOMAIN call.args[1] : IsRat(call.args[1][k])) =>
    LET v == call.args[1]
        out == ret.out
    IN /\ ~ret.panic
       /\ Len(out) = Len(v)
       /\ \A i \in DOMAIN out : Ge(out[i], Zero) /\ Ge(One, out[i])
       /\ SumFrom(Zero, out, Len(out)) = One
       /\ \E m \in DOMAIN v :
            /\ \A k \in DOMAIN v : Ge(v[m], v[k])
            /\ LET e == [k \in DOMAIN v |-> Exp(Sub(v[k], v[m]))]
               IN \A i \in DOMAIN v :
                    out[i] = Div(e[i], SumFrom(Zero, e, Len(e)))

\* ActivateVector returned three different probabilities for three different
\* numbers, the largest of them last
C11_Witness ==
  /\ call.op = "ActivateVector" /\ Len(call.args[1]) = 3 /\ ~ret.panic
  /\ Lt(call.args[1][1], call.args[1][2]) /\ Lt(call.args[1][2], call.args[1][3])
  /\ Lt(Zero, ret.out[1]) /\ Lt(ret.out[1], ret.out[2])
  /\ Lt(ret.out[2], ret.out[3]) /\ Lt(ret.out[3], One)

\* C17: for predicted and target of equal length, CrossEntropyLoss returns
\* grad_i = predicted_i - target_i from the predicted_i it was handed, also when
\* predicted_i lies below epsilon or above 1 - epsilon.
C17_GradFromRawPrediction ==
  (/\ call.op = "CrossEntropyLoss" /\ ~ret.panic
   /\ Len(call.args[1]) = Len(call.args[2])) =>
    ret.out.grad =
      [i \in DOMAIN call.args[1] |-> Sub(call.args[1][i], call.args[2][i])]

(***************************************************************************)
(* The claims about one Layer, checked under SpecLayer: call.pre[1] is the *)
(* layer before the call, nn[1] the layer after it.                        *)
(***************************************************************************)

\* C12: a Layer.Backward that returns stores its deltas and returns prevError
\* whatever the learning rate; with a rate of 0 (or below) no weight and no bias
\* changes; with a rate above 0 every weight becomes W[i][j] - lr*delta_i*input_j
\* and every bias b_i - lr*delta_i, the update applied once.
C12_BackwardRateGate ==
  (call.op = "Layer.Backward" /\ ~ret.panic) =>
    LET l == call.pre[1]
        errorGrad == call.args[1]
        lr == call.args[2]
        after == nn[1]
    IN /\ after.deltas =
            [i \in DOMAIN l.outputs |->
               IF IsSoftmax(l) THEN errorGrad[i]
               ELSE Mul(errorGrad[i], Derivative(l.Activation, l.outputs[i]))]
       /\ Len(ret.out) = Len(l.inputs)
       /\ ~Gt(lr, Zero) =>
            after.Weights = l.Weights /\ after.Biases = l.Biases
       /\ Gt(lr, Zero) =>
            /\ after.Weights =
                 [i \in DOMAIN l.Weights |-> [j \in DOMAIN l.Weights[i] |->
                    Sub(l.Weights[i][j],
                        Mul(Mul(lr, after.deltas[i]), l.inputs[j]))]]
            /\ after.Biases =
                 [i \in DOMAIN l.Biases |->
                    Sub(l.Biases[i], Mul(lr, after.deltas[i]))]

\* a Backward with rate 0 stored a non-zero delta for a non-zero input,
\* returned a non-zero prevError and left the weights and biases as they were
C12_Witness ==
  /\ call.op = "Layer.Backward" /\ ~ret.panic /\ call.args[2] = Zero
  /\ \E i \in DOMAIN nn[1].deltas : \E j \in DOMAIN nn[1].inputs :
        /\ nn[1].deltas[i] # Zero /\ nn[1].inputs[j] # Zero /\ ret.out[j] # Zero
  /\ nn[1].Weights = call.pre[1].Weights /\ nn[1].Biases = call.pre[1].Biases

\* C13: the prevError a Layer.Backward returns is, for every input index j,
\* the sum over i of delta_i * W[i][j] with W the weights the layer had when the
\* call began, whatever the learning rate.
C13_PrevErrorPreUpdateWeights ==
  (call.op = "Layer.Backward" /\ ~ret.panic) =>
    LET l == call.pre[1]
        deltas == nn[1].deltas
    IN ret.out =
         [j \in DOMAIN l.inputs |->
            SumFrom(Zero, [i \in DOMAIN deltas |-> Mul(deltas[i], l.Weights[i][j])],
                    Len(deltas))]

\* a Backward with a positive rate changed the weights, and the same sum over
\* the weights it left differs from the prevError it returned
C13_Witness ==
  /\ call.op = "Layer.Backward" /\ ~ret.panic /\ Gt(call.args[2], Zero)
  /\ nn[1].Weights # call.pre[1].Weights
  /\ ret.out #
       [j \in DOMAIN nn[1].inputs |->
          SumFrom(Zero, [i \in DOMAIN nn[1].deltas |->
                           Mul(nn[1].deltas[i], nn[1].Weights[i][j])],
                  Len(nn[1].deltas))]

\* C18: when a layer that is not Softmax runs Backward on the outputs its
\* Forward stored, out_i = A.Activate(z_i), the factor multiplied into delta_i
\* is the derivative of A at z_i: out*(1-out) for Sigmoid, 1-out^2 for Tanh,
\* 1 if z > 0 else 0 for ReLU (Alpha instead of 0 for LeakyReLU), 1 for Linear,
\* 1 if z >= 0 else Alpha*exp(z) for ELU, sig(z) + z*sig(z)*(1-sig(z)) for Swish.
C18_DerivativeOnOutputExact ==
  (/\ call.op = "Layer.Backward" /\ ~ret.panic
   /\ ~IsSoftmax(call.pre[1]) /\ call.pre[1].outputs # <<>>
   /\ ~ForwardIndexPanic(call.pre[1], call.pre[1].inputs)
   /\ call.pre[1].outputs = LayerOutput(call.pre[1], call.pre[1].inputs)) =>
    LET l == call.pre[1]
        errorGrad == call.args[1]
        kind == l.Activation.kind
        alpha == l.Activation.Alpha
        sig(z) == Div(One, Add(One, Exp(Neg(z))))
        slope(z, out) ==
          CASE kind = "Sigmoid" -> Mul(out, Sub(One, out))
            [] kind = "Tanh" -> Sub(One, Mul(out, out))
            [] kind = "ReLU" -> IF Gt(z, Zero) THEN One ELSE Zero
            [] kind = "LeakyReLU" -> IF Gt(z, Zero) THEN One ELSE alpha
            [] kind = "Linear" -> One
            [] kind = "ELU" -> IF Ge(z, Zero) THEN One ELSE Mul(alpha, Exp(z))
            [] OTHER -> Add(sig(z), Mul(Mul(z, sig(z)), Sub(One, sig(z))))
    IN \A i \in DOMAIN l.outputs :
         nn[1].deltas[i] =
           Mul(errorGrad[i], slope(WeightedSum(l, l.inputs, i), l.outputs[i]))

\* C19: a Layer.Backward that returns, on a layer whose Forward stored its
\* outputs, stores a delta of length outputSize and returns a prevError of
\* length inputSize (a layer on its own is a first layer); delta_i is
\* errorGrad_i on a Softmax layer, and errorGrad_i times the activation's
\* Derivative of the stored output o_i on every other layer.
C19_DeltaComputation ==
  (/\ call.op = "Layer.Backward" /\ ~ret.panic
   /\ call.pre[1].outputs # <<>>) =>
    LET l == call.pre[1]
        errorGrad == call.args[1]
    IN /\ Len(nn[1].deltas) = Len(l.Weights)
       /\ Len(ret.out) = Len(l.Weights[1])
       /\ \A i \in DOMAIN nn[1].deltas :
            nn[1].deltas[i] =
              IF l.Activation.kind = "Softmax" THEN errorGrad[i]
              ELSE Mul(errorGrad[i], Derivative(l.Activation, l.outputs[i]))

\* C20: a Layer.Forward on an input of the layer's width returns, with
\* z_i = b_i + sum over j of W[i][j] * input[j], the vector
\* exp(z_i - max z) / sum over k of exp(z_k - max z) on a Softmax layer and
\* Activate(z_i) for every i on any other layer; it stores the input and this
\* output on the layer and changes no weight and no bias.
C20_ForwardComputation ==
  (/\ call.op = "Layer.Forward"
   /\ Len(call.args[1]) = Len(call.pre[1].Weights[1])) =>
    LET l == call.pre[1]
        input == call.args[1]
        z == [i \in DOMAIN l.Weights |->
                SumFrom(l.Biases[i],
                        [j \in DOMAIN input |-> Mul(l.Weights[i][j], input[j])],
                        Len(input))]
    IN /\ ~ret.panic
       /\ Len(ret.out) = Len(l.Weights)
       /\ IF l.Activation.kind = "Softmax"
          THEN \E m \in DOMAIN z :
                 /\ \A k \in DOMAIN z : ~Gt(z[k], z[m])
                 /\ LET e == [k \in DOMAIN z |-> Exp(Sub(z[k], z[m]))]
                    IN \A i \in DOMAIN z :
                         ret.out[i] = Div(e[i], SumFrom(Zero, e, Len(e)))
          ELSE \A i \in DOMAIN z : ret.out[i] = Activate(l.Activation, z[i])
       /\ nn[1].inputs = input
       /\ nn[1].outputs = ret.out
       /\ nn[1].Weights = l.Weights /\ nn[1].Biases = l.Biases

\* a Softmax layer of two units returned two different probabilities for a
\* non-zero input, neither of them the weighted sum itself
C20_Witness ==
  /\ call.op = "Layer.Forward" /\ ~ret.panic
  /\ call.pre[1].Activation.kind = "Softmax"
  /\ Len(call.args[1]) = Len(call.pre[1].Weights[1]) /\ Len(ret.out) = 2
  /\ ret.out[1] # ret.out[2]
  /\ Add(ret.out[1], ret.out[2]) = One
  /\ ret.out[1] # WeightedSum(call.pre[1], call.args[1], 1)
  /\ nn[1].outputs = ret.out

(***************************************************************************)
(* The Markov decision process library (package mdplib).                   *)
(***************************************************************************)
\* calls on the MDP in one run
MaxMDPOps == 2

\* the sign of a rational or an infinity
SignOf(x) == IF x[1] < 0 THEN -1 ELSE IF x[1] > 0 THEN 1 ELSE 0

\* float64 arithmetic extended to the infinities
InfOfSign(s) == IF s = 0 THEN NaN ELSE IF s > 0 THEN PosInf ELSE NegInf

XNeg(x) == IF x = NegInf THEN PosInf ELSE IF x = PosInf THEN NegInf ELSE Neg(x)

XMul(x, y) ==
  IF x = NaN \/ y = NaN THEN NaN
  ELSE IF x = Huge \/ y = Huge THEN Huge
  ELSE IF IsInf(x) \/ IsInf(y) THEN InfOfSign(SignOf(x) * SignOf(y))
  ELSE Mul(x, y)

XAdd(x, y) ==
  IF x = NaN \/ y = NaN THEN NaN
  ELSE IF x = Huge \/ y = Huge THEN Huge
  ELSE IF IsInf(x) THEN (IF IsInf(y) /\ y # x THEN NaN ELSE x)
  ELSE IF IsInf(y) THEN y
  ELSE Add(x, y)

XSub(x, y) == XAdd(x, XNeg(y))

\* math.Abs
XAbs(x) == IF IsInf(x) THEN PosInf ELSE IF IsRat(x) THEN <<Abs(x[1]), x[2]>> ELSE x

\* x < y in float64: false as soon as an operand is NaN; for an operand out
\* of range the comparison has no outcome in the model, and the callers ask
\* Decided first
XLt(x, y) ==
  IF x = NaN \/ y = NaN \/ x = y THEN FALSE
  ELSE IF x = NegInf \/ y = PosInf THEN TRUE
  ELSE IF x = PosInf \/ y = NegInf THEN FALSE
  ELSE Lt(x, y)

XGt(x, y) == XLt(y, x)

\* the comparison of x with y has an outcome in the model: it is false when
\* an operand is NaN; otherwise it has none when an operand is out of range,
\* and what the code does next is then out of the model's range as well
Decided(x, y) == x = NaN \/ y = NaN \/ (x # Huge /\ y # Huge)

\* math.Max: +Inf if an operand is +Inf, else NaN if an operand is NaN
MathMax(x, y) ==
  IF x = PosInf \/ y = PosInf THEN PosInf
  ELSE IF x = NaN \/ y = NaN THEN NaN
  ELSE IF ~Decided(x, y) THEN Huge
  ELSE IF XLt(x, y) THEN y ELSE x

\* a float64 that is neither NaN nor infinite
Finite(x) == IsRat(x)

\* a Go map: the keys are the domain; a missing key reads as the zero value
MapSet(f, k, v) == [x \in DOMAIN f \cup {k} |-> IF x = k THEN v ELSE f[x]]
MapGet(f, k, zero) == IF k \in DOMAIN f THEN f[k] ELSE zero

Transition(ns, p, r) == [NextState |-> ns, Prob |-> p, Reward |-> r]

\* 1e-6 as one over ToleranceDen
ToleranceDen == 1000000
MaxIterations == 1000

NewMDP(states, discount) ==
  [States |-> states, Actions |-> <<>>, Transitions |-> <<>>, Discount |-> discount,
   ValueFunc |-> <<>>, Policy |-> <<>>,
   Tolerance |-> <<1, ToleranceDen>>, MaxIterations |-> MaxIterations]

AddAction(m, state, action, transitions) ==
  [m EXCEPT !.Actions = MapSet(m.Actions, state,
                               Append(MapGet(m.Actions, state, <<>>), action)),
            !.Transitions = MapSet(m.Transitions, state,
                                   MapSet(MapGet(m.Transitions, state, <<>>),
                                          action, transitions))]

\* m.Transitions[s][a]: nil when either key is missing
TransitionsOf(m, s, a) == MapGet(MapGet(m.Transitions, s, <<>>), a, <<>>)

\* the term one transition adds to an action's value
Backup(t, discount, vf) ==
  XMul(t.Prob, XAdd(t.Reward, XMul(discount, MapGet(vf, t.NextState, Zero))))

\* v += ... over the transitions k .. Len(ts), in order
RECURSIVE QSum(_, _, _, _, _)
QSum(ts, discount, vf, k, v) ==
  IF k > Len(ts) THEN v
  ELSE QSum(ts, discount, vf, k + 1, XAdd(v, Backup(ts[k], discount, vf)))

\* the value of action a in state s under the value function of m
QValue(m, s, a) == QSum(TransitionsOf(m, s, a), m.Discount, m.ValueFunc, 1, Zero)

\* if v > bestValue { bestValue = v }
Better(v, bestValue) ==
  IF ~Decided(v, bestValue) THEN Huge
  ELSE IF XGt(v, bestValue) THEN v ELSE bestValue

\* bestValue after the actions k .. Len(acts) of s
RECURSIVE BestValue(_, _, _, _, _)
BestValue(m, s, acts, k, bestValue) ==
  IF k > Len(acts) THEN bestValue
  ELSE BestValue(m, s, acts, k + 1, Better(QValue(m, s, acts[k]), bestValue))

\* one sweep of ValueIteration over the states k .. Len(m.States)
RECURSIVE Sweep(_, _, _, _)
\* a sweep that writes each new value into the value function it reads from
SweepStateInPlace(m, k, newValues, delta, bestValue) ==
  Sweep([m EXCEPT !.ValueFunc = MapSet(m.ValueFunc, m.States[k], bestValue)],
        k + 1, MapSet(newValues, m.States[k], bestValue),
        MathMax(delta, XAbs(XSub(bestValue, MapGet(m.ValueFunc, m.States[k], Zero)))))

SweepState(m, k, newValues, delta, bestValue) ==
  Sweep(m, k + 1, MapSet(newValues, m.States[k], bestValue),
        MathMax(delta, XAbs(XSub(bestValue, MapGet(m.ValueFunc, m.States[k], Zero)))))

Sweep(m, k, newValues, delta) ==
  IF k > Len(m.States) THEN [values |-> newValues, delta |-> delta]
  ELSE SweepState(m, k, newValues, delta,
                  BestValue(m, m.States[k], MapGet(m.Actions, m.States[k], <<>>), 1, NegInf))

\* an action the model cannot name: the one chosen by a comparison that has
\* no outcome in the model
HugeAction == "(out of range)"

\* the values and the policy of the MDP stay within the model's range
MDPOK(m) ==
  /\ \A s \in DOMAIN m.ValueFunc : m.ValueFunc[s] # Huge
  /\ \A s \in DOMAIN m.Policy : m.Policy[s] # HugeAction

\* the state of a solver's loop: the MDP, the passes made, whether it broke
\* out, and whether the run left the model's range (lost)
LoopStart(m) == [mdp |-> m, sweeps |-> 0, done |-> FALSE, lost |-> FALSE]

\* the end of a sweep: the new values replace the old ones, and the loop
\* breaks when delta < Tolerance; the run is lost when a new value or delta
\* is out of range
Swept(st, sw) ==
  [mdp |-> [st.mdp EXCEPT !.ValueFunc = sw.values],
   sweeps |-> st.sweeps + 1,
   done |-> XLt(sw.delta, st.mdp.Tolerance),
   lost |-> sw.delta = Huge \/ \E s \in DOMAIN sw.values : sw.values[s] = Huge]

\* one pass of the loop of ValueIteration
ValueIterationPass(st) == Swept(st, Sweep(st.mdp, 1, <<>>, Zero))

\* n passes of `for i := 0; i < m.MaxIterations; i++`, unless a break ends
\* them (the passes are split in halves to keep the evaluation shallow)
RECURSIVE ValueIterationLoop(_, _)
ValueIterationLoop(st, n) ==
  IF n <= 0 \/ st.done \/ st.lost THEN st
  ELSE IF n = 1 THEN ValueIterationPass(st)
  ELSE ValueIterationLoop(ValueIterationLoop(st, n \div 2), n - n \div 2)

\* ValueIteration: [mdp, sweeps, done, lost]
ValueIteration(m) == ValueIterationLoop(LoopStart(m), m.MaxIterations)

\* an improvement that never replaces the action it starts from
BetterActionKept(v, a, best) == best

\* if v > bestValue { bestValue = v; bestAction = a }
BetterAction(v, a, best) ==
  IF ~Decided(v, best.value) THEN [value |-> Huge, action |-> HugeAction]
  ELSE IF XGt(v, best.value) THEN [value |-> v, action |-> a] ELSE best

\* bestAction after the actions k .. Len(acts) of s
RECURSIVE BestAction(_, _, _, _, _)
BestAction(m, s, acts, k, best) ==
  IF k > Len(acts) THEN best.action
  ELSE BestAction(m, s, acts, k + 1, BetterAction(QValue(m, s, acts[k]), acts[k], best))

\* the greedy action of s, bestAction starting as first
GreedyAction(m, s, first) ==
  BestAction(m, s, MapGet(m.Actions, s, <<>>), 1, [value |-> NegInf, action |-> first])

RECURSIVE ExtractPolicyFrom(_, _)
ExtractPolicyFrom(m, k) ==
  IF k > Len(m.States) THEN m
  ELSE ExtractPolicyFrom([m EXCEPT !.Policy = MapSet(m.Policy, m.States[k],
                                                    GreedyAction(m, m.States[k], ""))],
                         k + 1)

ExtractPolicy(m) == ExtractPolicyFrom(m, 1)

\* one sweep of policyEvaluation over the states k .. Len(m.States)
RECURSIVE EvalSweep(_, _, _, _)
EvalState(m, k, newValues, delta, v) ==
  EvalSweep(m, k + 1, MapSet(newValues, m.States[k], v),
            MathMax(delta, XAbs(XSub(v, MapGet(m.ValueFunc, m.States[k], Zero)))))

EvalSweep(m, k, newValues, delta) ==
  IF k > Len(m.States) THEN [values |-> newValues, delta |-> delta]
  ELSE EvalState(m, k, newValues, delta,
                 QValue(m, m.States[k], MapGet(m.Policy, m.States[k], "")))

policyEvaluationPass(st) == Swept(st, EvalSweep(st.mdp, 1, <<>>, Zero))

RECURSIVE policyEvaluationLoop(_, _)
policyEvaluationLoop(st, n) ==
  IF n <= 0 \/ st.done \/ st.lost THEN st
  ELSE IF n = 1 THEN policyEvaluationPass(st)
  ELSE policyEvaluationLoop(policyEvaluationLoop(st, n \div 2), n - n \div 2)

\* policyEvaluation: [mdp, sweeps, done, lost]
policyEvaluation(m) == policyEvaluationLoop(LoopStart(m), m.MaxIterations)

\* the policy PolicyIteration starts from: the first action of every state
\* that has one
RECURSIVE InitialPolicy(_, _)
InitialPolicy(m, k) ==
  IF k > Len(m.States) THEN m
  ELSE InitialPolicy(IF Len(MapGet(m.Actions, m.States[k], <<>>)) > 0
                     THEN [m EXCEPT !.Policy = MapSet(m.Policy, m.States[k],
                                                      m.Actions[m.States[k]][1])]
                     ELSE m,
                     k + 1)

\* the improvement sweep over the states k .. Len(m.States): [mdp, stable]
RECURSIVE Improve(_, _, _)
ImproveState(m, k, policyStable, oldAction, bestAction) ==
  Improve([m EXCEPT !.Policy = MapSet(m.Policy, m.States[k], bestAction)],
          k + 1, policyStable /\ bestAction = oldAction)

Improve(m, k, policyStable) ==
  IF k > Len(m.States) THEN [mdp |-> m, stable |-> policyStable]
  ELSE ImproveState(m, k, policyStable, MapGet(m.Policy, m.States[k], ""),
                    GreedyAction(m, m.States[k], MapGet(m.Policy, m.States[k], "")))

\* the end of a pass: the loop breaks when the policy is stable; the run is
\* lost when the evaluation was, or when an action chosen is out of range
PolicyIterationImproved(st, lost, r) ==
  [mdp |-> r.mdp, sweeps |-> st.sweeps + 1, done |-> r.stable,
   lost |-> lost \/ ~MDPOK(r.mdp)]

PolicyIterationEvaluated(st, ev) ==
  PolicyIterationImproved(st, ev.lost, Improve(ev.mdp, 1, TRUE))

\* one pass of the loop of PolicyIteration: evaluation, then improvement
PolicyIterationPass(st) == PolicyIterationEvaluated(st, policyEvaluation(st.mdp))

RECURSIVE PolicyIterationLoop(_, _)
PolicyIterationLoop(st, n) ==
  IF n <= 0 \/ st.done \/ st.lost THEN st
  ELSE IF n = 1 THEN PolicyIterationPass(st)
  ELSE PolicyIterationLoop(PolicyIterationLoop(st, n \div 2), n - n \div 2)

\* PolicyIteration: [mdp, sweeps, done, lost]
PolicyIteration(m) ==
  PolicyIterationLoop(LoopStart(InitialPolicy(m, 1)), m.MaxIterations)

appendIfMissing(states, s) ==
  IF \E i \in DOMAIN states : states[i] = s THEN states ELSE Append(states, s)

appendIfMissingAction(actions, a) ==
  IF \E i \in DOMAIN actions : actions[i] = a THEN actions ELSE Append(actions, a)

\* what the loaders do with one record: the states, the action and the
\* transition are added to the MDP
LoadRecord(m, s, a, t) ==
  [m EXCEPT !.States = appendIfMissing(appendIfMissing(m.States, s), t.NextState),
            !.Actions = MapSet(m.Actions, s,
                               appendIfMissingAction(MapGet(m.Actions, s, <<>>), a)),
            !.Transitions = MapSet(m.Transitions, s,
                                   MapSet(MapGet(m.Transitions, s, <<>>), a,
                                          Append(TransitionsOf(m, s, a), t)))]

\* a text that is no number
NotANumber == [neg |-> FALSE, num |-> <<>>, den |-> <<>>]

\* p, _ := strconv.ParseFloat(...): the error is dropped and p is 0
ParseFloatOrZero(t) == IF t.num = <<>> THEN Zero ELSE ParseFloat(t)

\* the records k .. Len(rows) of a CSV file whose first row is the header:
\* a row with another number of fields than the header is an error, a row
\* shorter than five fields a panic (index out of range)
RECURSIVE LoadCSVRows(_, _, _)
LoadCSVRows(m, rows, k) ==
  IF k > Len(rows) THEN [err |-> FALSE, panic |-> FALSE, mdp |-> m]
  ELSE IF Len(rows[k]) # Len(rows[1]) THEN [err |-> TRUE, panic |-> FALSE, mdp |-> m]
  ELSE IF Len(rows[k]) < 5 THEN [err |-> FALSE, panic |-> TRUE, mdp |-> m]
  ELSE LoadCSVRows(LoadRecord(m, rows[k][1], rows[k][2],
                              Transition(rows[k][3], ParseFloatOrZero(rows[k][4]),
                                         ParseFloatOrZero(rows[k][5]))),
                   rows, k + 1)

\* LoadFromCSV: [err, panic, mdp]; f is the file at the path
LoadFromCSV(m, f) ==
  IF ~f.exists THEN [err |-> TRUE, panic |-> FALSE, mdp |-> m]
  ELSE LoadCSVRows(m, f.rows, 2)

RECURSIVE LoadJSONEntries(_, _, _)
LoadJSONEntries(m, raw, k) ==
  IF k > Len(raw) THEN [err |-> FALSE, panic |-> FALSE, mdp |-> m]
  ELSE LoadJSONEntries(LoadRecord(m, raw[k].state, raw[k].action,
                                  Transition(raw[k].next_state, ParseFloat(raw[k].prob),
                                             ParseFloat(raw[k].reward))),
                       raw, k + 1)

\* LoadFromJSON: [err, panic, mdp]; a missing or malformed file is an error
LoadFromJSON(m, f) ==
  IF ~f.exists \/ ~f.wellFormed THEN [err |-> TRUE, panic |-> FALSE, mdp |-> m]
  ELSE LoadJSONEntries(m, f.raw, 1)

(***************************************************************************)
(* The calls on the MDP and the inputs they are made with.                 *)
(***************************************************************************)
MDPStateLists == { <<>>, <<"s0">>, <<"s0", "s1">> }

Discounts == { <<1, 2>>, One }

\* the (state, action, transitions) triples handed to AddAction
AddActionArgs ==
  { <<"s0", "a", << Transition("s0", One, One) >> >>,
    <<"s0", "b", << Transition("s1", One, R(2)) >> >>,
    <<"s1", "a", << Transition("s0", One, Zero) >> >>,
    <<"s0", "a", << Transition("s0", <<1, 2>>, One), Transition("s1", Zero, One) >> >> }

CSVHeader == <<"state", "action", "next_state", "prob", "reward">>

CSVRow(s, a, ns, p, r) == <<s, a, ns, FormatFloat(p), FormatFloat(r)>>

\* the CSV files: none at the path; one in which every state has an action;
\* one with a probability that is no number and a row of four fields; one
\* whose rows all have four fields
CSVFiles ==
  { [exists |-> FALSE, rows |-> <<>>],
    [exists |-> TRUE,
     rows |-> << CSVHeader, CSVRow("s0", "a", "s0", One, One),
                 CSVRow("s0", "b", "s1", One, R(3)),
                 CSVRow("s1", "a", "s0", One, Zero) >>],
    [exists |-> TRUE,
     rows |-> << CSVHeader, <<"s0", "a", "s1", NotANumber, FormatFloat(One)>>,
                 <<"s1", "a", "s0", FormatFloat(One)>> >>],
    [exists |-> TRUE,
     rows |-> << <<"state", "action", "next_state", "prob">>,
                 <<"s0", "a", "s1", FormatFloat(One)>> >>] }

RawTransition(s, a, ns, p, r) ==
  [state |-> s, action |-> a, next_state |-> ns,
   prob |-> FormatFloat(p), reward |-> FormatFloat(r)]

\* the JSON files: a malformed one, and one in which s1 occurs only as a
\* next state
JSONFiles ==
  { [exists |-> TRUE, wellFormed |-> FALSE, raw |-> <<>>],
    [exists |-> TRUE, wellFormed |-> TRUE,
     raw |-> << RawTransition("s0", "a", "s0", <<1, 2>>, One),
                RawTransition("s0", "a", "s1", <<1, 2>>, Zero),
                RawTransition("s0", "b", "s1", One, R(-1)) >>] }

CalledMDP(op, args) == [op |-> op, args |-> args, pre |-> mdp, preFile |-> file]

CallNewMDP(states, discount) ==
  /\ status = "none"
  /\ call' = CalledMDP("NewMDP", <<states, discount>>)
  /\ mdp' = NewMDP(states, discount)
  /\ status' = "ready"
  /\ ret' = NoRet
  /\ UNCHANGED <<nn, file, nops>>

\* the effect shared by the calls on the MDP
MDPRan(op, args, m, r) ==
  /\ MDPOK(m)
  /\ call' = CalledMDP(op, args)
  /\ mdp' = m
  /\ ret' = r
  /\ status' = IF r.panic THEN "panic" ELSE "ready"
  /\ nops' = nops + 1
  /\ UNCHANGED <<nn, file>>

CallAddAction(state, action, transitions) ==
  /\ status = "ready" /\ nops < MaxMDPOps
  /\ MDPRan("AddAction", <<state, action, transitions>>,
            AddAction(mdp, state, action, transitions), NoRet)

\* a loader's call: r is [err, panic, mdp]
LoaderRan(op, f, r) ==
  MDPRan(op, <<f>>, r.mdp, [panic |-> r.panic, err |-> r.err, out |-> <<>>])

CallLoadFromCSV(f) ==
  /\ status = "ready" /\ nops < MaxMDPOps
  /\ LoaderRan("LoadFromCSV", f, LoadFromCSV(mdp, f))

CallLoadFromJSON(f) ==
  /\ status = "ready" /\ nops < MaxMDPOps
  /\ LoaderRan("LoadFromJSON", f, LoadFromJSON(mdp, f))

\* a solver's call: r is [mdp, sweeps, done, lost]; the passes its loop made
\* and whether it broke out of the loop are kept for the properties
SolverRan(op, r) ==
  /\ ~r.lost
  /\ MDPRan(op, <<>>, r.mdp,
         [panic |-> FALSE, err |-> FALSE, out |-> [sweeps |-> r.sweeps, done |-> r.done]])

CallValueIteration ==
  /\ status = "ready" /\ nops < MaxMDPOps
  /\ SolverRan("ValueIteration", ValueIteration(mdp))

CallExtractPolicy ==
  /\ status = "ready" /\ nops < MaxMDPOps
  /\ MDPRan("ExtractPolicy", <<>>, ExtractPolicy(mdp), NoRet)

CallPolicyIteration ==
  /\ status = "ready" /\ nops < MaxMDPOps
  /\ SolverRan("PolicyIteration", PolicyIteration(mdp))

NextMDP ==
  \/ \E states \in MDPStateLists, discount \in Discounts : CallNewMDP(states, discount)
  \/ \E args \in AddActionArgs : CallAddAction(args[1], args[2], args[3])
  \/ \E f \in CSVFiles : CallLoadFromCSV(f)
  \/ \E f \in JSONFiles : CallLoadFromJSON(f)
  \/ CallValueIteration
  \/ CallExtractPolicy
  \/ CallPolicyIteration

SpecMDP == Init /\ [][NextMDP]_vars

(***************************************************************************)
(* The claims about the MDP solvers, checked under SpecMDP.                *)
(***************************************************************************)
\* C24: after ValueIteration returns on an MDP built by NewMDP, AddAction,
\* LoadFromCSV or LoadFromJSON from finite probabilities, rewards and
\* discount, ValueFunc[s] is a finite number for every s in States, the
\* states without actions included.
C24_ValuesFinite ==
  call.op = "ValueIteration" =>
    \A k \in DOMAIN mdp.States : Finite(MapGet(mdp.ValueFunc, mdp.States[k], Zero))

\* the values one synchronous sweep gives: every new value is computed from
\* the value function vf of the sweep before
SyncValues(m, vf) ==
  [s \in {m.States[k] : k \in DOMAIN m.States} |->
     BestValue([m EXCEPT !.ValueFunc = vf], s, MapGet(m.Actions, s, <<>>), 1, NegInf)]

\* delta = max_s |new[s] - vf[s]| is below Tolerance
SyncBelow(m, vf, new) ==
  \A s \in DOMAIN new : XLt(XAbs(XSub(new[s], MapGet(vf, s, Zero))), m.Tolerance)

SyncSwept(m, st, new) ==
  [vf |-> new, sweeps |-> st.sweeps + 1, stopped |-> SyncBelow(m, st.vf, new)]

\* at most n synchronous sweeps, ending with the first one whose delta is
\* below Tolerance
RECURSIVE SyncRun(_, _, _)
SyncRun(m, st, n) ==
  IF n <= 0 \/ st.stopped THEN st
  ELSE IF n = 1 THEN SyncSwept(m, st, SyncValues(m, st.vf))
  ELSE SyncRun(m, SyncRun(m, st, n \div 2), n - n \div 2)

\* C25: ValueIteration makes at most MaxIterations sweeps and returns; it
\* returns right after the first sweep whose delta = max_s |new[s] - old[s]|
\* is below Tolerance; and every sweep computes all its new values from the
\* value function the sweep before left (a synchronous update).
C25_SynchronousSweeps ==
  call.op = "ValueIteration" =>
    LET ref == SyncRun(call.pre,
                       [vf |-> call.pre.ValueFunc, sweeps |-> 0, stopped |-> FALSE],
                       call.pre.MaxIterations)
    IN /\ ret.out.sweeps <= call.pre.MaxIterations
       /\ ret.out.sweeps = ref.sweeps
       /\ ret.out.done = ref.stopped
       /\ mdp.ValueFunc = ref.vf
       /\ mdp = [call.pre EXCEPT !.ValueFunc = ref.vf]

\* ValueIteration stopped early after several sweeps on an MDP in which a
\* state leads to a state listed before it, every state having an action
C25_Witness ==
  /\ call.op = "ValueIteration"
  /\ ret.out.done /\ ret.out.sweeps > 2 /\ ret.out.sweeps < call.pre.MaxIterations
  /\ Len(mdp.States) = 2
  /\ \A k \in DOMAIN mdp.States : Finite(mdp.ValueFunc[mdp.States[k]])
  /\ \E t \in DOMAIN TransitionsOf(mdp, mdp.States[2], "a") :
        TransitionsOf(mdp, mdp.States[2], "a")[t].NextState = mdp.States[1]
  /\ mdp.ValueFunc[mdp.States[1]] # Zero

\* C26: when PolicyIteration returns because an improvement sweep changed no
\* state's action, then for every state s with at least one action Policy[s]
\* is one of Actions[s] and no action of s has a greater value
\* sum Prob * (Reward + Discount * ValueFunc[NextState]) than Policy[s], under
\* the ValueFunc the last policyEvaluation left; and PolicyIteration returns
\* after at most MaxIterations improvement sweeps.
C26_StablePolicyGreedy ==
  call.op = "PolicyIteration" =>
    /\ ret.out.sweeps <= call.pre.MaxIterations
    /\ ret.out.done =>
         \A k \in DOMAIN mdp.States :
            LET s == mdp.States[k]
                acts == MapGet(mdp.Actions, s, <<>>)
            IN Len(acts) > 0 =>
                 /\ s \in DOMAIN mdp.Policy
                 /\ \E i \in DOMAIN acts : acts[i] = mdp.Policy[s]
                 /\ \A i \in DOMAIN acts :
                       ~XGt(QValue(mdp, s, acts[i]), QValue(mdp, s, mdp.Policy[s]))

\* PolicyIteration returned with a stable policy after changing it: a state
\* has two actions of different finite values and the policy holds the
\* second, better one
C26_Witness ==
  /\ call.op = "PolicyIteration"
  /\ ret.out.done /\ ret.out.sweeps >= 2
  /\ \E k \in DOMAIN mdp.States :
        LET s == mdp.States[k]
            acts == MapGet(mdp.Actions, s, <<>>)
        IN /\ Len(acts) = 2
           /\ mdp.Policy[s] = acts[2]
           /\ Finite(QValue(mdp, s, acts[1]))
           /\ XGt(QValue(mdp, s, acts[2]), QValue(mdp, s, acts[1]))
====
